---- MODULE Spec2Model ----
(***************************************************************************)
(* A model of the Excel catalog migration tool (package dedaexcelai):      *)
(* the structural scanner (find_element_catalog_interval), the row / cost  *)
(* classifier (determine_cost_type, ElementService.create_element), the    *)
(* orchestrators (migrate_excel, SchemaSheetProcessor.process) and the     *)
(* formula resolvers (StartupDaysAnalyzer._analyze_single_formula,         *)
(* evaluate_primitive_formula).                                            *)
(*                                                                         *)
(* Cell values are records [t, s, n]: t is "none" (Python None), "str"     *)
(* (a Python str, held in s) or "num" (an int/float, held in n).  Python   *)
(* strings are TLA+ strings, taken apart with Len and SubSeq.              *)
(***************************************************************************)
EXTENDS Integers, Sequences, FiniteSets, TLC

VARIABLES
    sheet,      \* the SCHEMA sheet: a sequence of rows, one record per row
    row,        \* the row a scanner / classifier call is made for
    pc,         \* position of the running operation
    interval,   \* result of find_element_catalog_interval: <<start_row, end_row>>
    cost_type,  \* result of determine_cost_type
    formula,    \* the formula string handed to a resolver
    prim,       \* the PRIMITIVE sheet: [data |-> cached values, formulas |-> formula text]
    chain,      \* the references the formula was written from
    view,       \* which PRIMITIVE view evaluate_primitive_formula was given
    result,     \* what the resolver returned
    llm,        \* number of calls made to the GPT-4 fallback
    sum_range,  \* the range a SUM formula was written from: <<c1, r1, c2, r2>>
    filename,   \* the name of the input file, which selects the override rules
    extracted,  \* the list extract_cell_references returned
    calls,      \* the source rows whose formula was handed to the GPT-4 fallback, in call order
    address,    \* the <<row, column>> a cell reference was converted to
    primitive,  \* whether the input workbook has a PRIMITIVE sheet
    schema,     \* whether the input workbook has a SCHEMA sheet
    current_output_row, \* the orchestrator's output row counter
    processed_rows,     \* source rows already written as sub-elements
    out,        \* the output sheet: output row -> columns written so far
    emitted,    \* source row -> the output row its iteration wrote it to
    element,    \* the Element create_element returned for the last row
    task        \* the task of TaskBasedProcessor.process_sheet, its rows and what was saved

scanVars == <<sheet, row, interval, cost_type>>
resolveVars == <<formula, prim, chain, view, result, llm, sum_range, filename, extracted, calls, address>>
migrateVars == <<primitive, schema, task, current_output_row, processed_rows, out, emitted, element>>
vars == <<pc, scanVars, resolveVars, migrateVars>>

(***************************************************************************)
(* Bounds of the model.                                                    *)
(***************************************************************************)
MaxScanRows == 4
MaxCostRows == 3
\* depth at which a chain of nested formulas is cut (Python's recursion
\* limit ends it with a RecursionError, caught as any other exception)
MaxDepth == 3
\* longest '*' chain of a formula
MaxChain == 2

(***************************************************************************)
(* Cell values.                                                            *)
(***************************************************************************)
None == [t |-> "none", s |-> "", n |-> 0]
Str(x) == [t |-> "str", s |-> x, n |-> 0]
Num(x) == [t |-> "num", s |-> "", n |-> x]

\* cell.value for a cell the sheet does not hold is None
get_cell_value(sh, r, col) ==
    IF r \in 1..Len(sh) THEN sh[r][col] ELSE None

(***************************************************************************)
(* Python str methods.                                                     *)
(***************************************************************************)
CharAt(s, i) == SubSeq(s, i, i)

RECURSIVE LStrip(_)
LStrip(s) ==
    IF Len(s) > 0 /\ CharAt(s, 1) = " " THEN LStrip(SubSeq(s, 2, Len(s))) ELSE s

RECURSIVE RStrip(_)
RStrip(s) ==
    IF Len(s) > 0 /\ CharAt(s, Len(s)) = " "
    THEN RStrip(SubSeq(s, 1, Len(s) - 1)) ELSE s

\* str.strip()
Strip(s) == RStrip(LStrip(s))

\* str.replace(ch, "") for a one-character ch
RECURSIVE RemoveChar(_, _)
RemoveChar(s, ch) ==
    IF Len(s) = 0 THEN ""
    ELSE IF CharAt(s, 1) = ch THEN RemoveChar(SubSeq(s, 2, Len(s)), ch)
    ELSE CharAt(s, 1) \o RemoveChar(SubSeq(s, 2, Len(s)), ch)

\* sub in s
Contains(s, sub) ==
    \E i \in 1..(Len(s) - Len(sub) + 1) : SubSeq(s, i, i + Len(sub) - 1) = sub

\* s.startswith(p)
StartsWith(s, p) == Len(s) >= Len(p) /\ SubSeq(s, 1, Len(p)) = p

\* str.split(ch) for a one-character ch: the pieces between the separators
RECURSIVE SplitFrom(_, _, _, _)
SplitFrom(s, ch, i, piece) ==
    IF i > Len(s) THEN <<piece>>
    ELSE IF CharAt(s, i) = ch THEN <<piece>> \o SplitFrom(s, ch, i + 1, "")
    ELSE SplitFrom(s, ch, i + 1, piece \o CharAt(s, i))

Split(s, ch) == SplitFrom(s, ch, 1, "")

\* str.replace(sub, ""): every occurrence of sub, left to right
RECURSIVE RemoveSub(_, _)
RemoveSub(s, sub) ==
    IF Len(s) = 0 THEN ""
    ELSE IF StartsWith(s, sub) THEN RemoveSub(SubSeq(s, Len(sub) + 1, Len(s)), sub)
    ELSE CharAt(s, 1) \o RemoveSub(SubSeq(s, 2, Len(s)), sub)

UpperLetters == "ABCDEFGHIJKLMNOPQRSTUVWXYZ"
LowerLetters == "abcdefghijklmnopqrstuvwxyz"
Digits == "0123456789"

IndexIn(c, chars) ==
    IF \E i \in 1..Len(chars) : CharAt(chars, i) = c
    THEN CHOOSE i \in 1..Len(chars) : CharAt(chars, i) = c
    ELSE 0

\* str.upper()
UpperChar(c) ==
    IF IndexIn(c, LowerLetters) > 0 THEN CharAt(UpperLetters, IndexIn(c, LowerLetters))
    ELSE c

RECURSIVE Upper(_)
Upper(s) ==
    IF Len(s) = 0 THEN "" ELSE UpperChar(CharAt(s, 1)) \o Upper(SubSeq(s, 2, Len(s)))

\* c.isalpha(), c.isdigit()
IsAlpha(c) == IndexIn(c, UpperLetters) > 0 \/ IndexIn(c, LowerLetters) > 0
IsDigit(c) == IndexIn(c, Digits) > 0

\* ''.join(c for c in s if c.isalpha()), and the same with isdigit
RECURSIVE FilterAlpha(_)
FilterAlpha(s) ==
    IF Len(s) = 0 THEN ""
    ELSE (IF IsAlpha(CharAt(s, 1)) THEN CharAt(s, 1) ELSE "")
            \o FilterAlpha(SubSeq(s, 2, Len(s)))

RECURSIVE FilterDigits(_)
FilterDigits(s) ==
    IF Len(s) = 0 THEN ""
    ELSE (IF IsDigit(CharAt(s, 1)) THEN CharAt(s, 1) ELSE "")
            \o FilterDigits(SubSeq(s, 2, Len(s)))

\* int(s) for a string of digits
RECURSIVE DigitsToInt(_)
DigitsToInt(s) ==
    IF Len(s) = 0 THEN 0
    ELSE DigitsToInt(SubSeq(s, 1, Len(s) - 1)) * 10 + (IndexIn(CharAt(s, Len(s)), Digits) - 1)

\* whether int(s) succeeds: digits, possibly surrounded by blanks
IsIntLiteral(s) ==
    /\ Len(Strip(s)) > 0
    /\ \A i \in 1..Len(Strip(s)) : IsDigit(CharAt(Strip(s), i))

(***************************************************************************)
(* Numbers returned by the resolvers: Python floats, held as fractions     *)
(* n/d in lowest terms; RNone is Python None.                              *)
(***************************************************************************)
RECURSIVE GCD(_, _)
GCD(a, b) == IF b = 0 THEN a ELSE GCD(b, a % b)

RNone == [t |-> "none", n |-> 0, d |-> 1]
Rat(n, d) ==
    LET g == GCD(n, d)
    IN  IF n = 0 THEN [t |-> "num", n |-> 0, d |-> 1]
        ELSE [t |-> "num", n |-> n \div g, d |-> d \div g]
RMul(x, y) == Rat(x.n * y.n, x.d * y.d)
RDiv(x, y) == Rat(x.n * y.d, x.d * y.n)

(***************************************************************************)
(* cell_operations.py                                                      *)
(***************************************************************************)
is_empty_or_dashes(v) ==
    IF v.t = "none" \/ (v.t = "str" /\ v.s = "") THEN TRUE
    ELSE IF v.t = "str" THEN RemoveChar(Strip(v.s), "-") = ""
    ELSE FALSE

\* extract_cell_references: the (sheet, cell) pairs of the parts of the
\* '*' chain that hold a '!'; a part that does not split into exactly two
\* pieces raises, and the function then returns []
RefParts(f) == Split(IF StartsWith(f, "=") THEN SubSeq(f, 2, Len(f)) ELSE f, "*")

extract_cell_references(f) ==
    LET parts == RefParts(f)
        sheetParts == SelectSeq(parts, LAMBDA p : Contains(p, "!"))
    IN  IF \E i \in 1..Len(sheetParts) : Len(Split(sheetParts[i], "!")) # 2
        THEN <<>>
        ELSE [i \in 1..Len(sheetParts) |-> Split(sheetParts[i], "!")]

\* sheet.cell(row, column).value of a PRIMITIVE view
PrimValue(sh, r, c) ==
    IF <<r, c>> \in DOMAIN sh THEN sh[<<r, c>>] ELSE None

\* get_cell_value_with_fallback: the cached value if numeric, else the
\* formula view's value if numeric, else None
get_cell_value_with_fallback(formula_value, data_value) ==
    IF data_value.t = "num" THEN Rat(data_value.n, 1)
    ELSE IF formula_value.t = "num" THEN Rat(formula_value.n, 1)
    ELSE RNone

(***************************************************************************)
(* llm/startup_analyzer.py: StartupDaysAnalyzer._analyze_single_formula    *)
(***************************************************************************)
\* openpyxl.utils.column_index_from_string of one character; 0 stands for
\* the ValueError it raises on anything but a letter
column_index_from_string(c) ==
    IF IsAlpha(c) THEN IndexIn(UpperChar(c), UpperLetters) ELSE 0

\* the deterministic part (lines 111-128): "value" with the number found,
\* "error" when an exception reaches the except clause (the function then
\* returns None), "fallback" when control falls through to the GPT-4 call
DirectExtraction(f, p) ==
    LET refs == extract_cell_references(f)
        sheet_name == refs[1][1]
        cell_ref == refs[1][2]
        col == column_index_from_string(CharAt(cell_ref, 1))
        rowText == SubSeq(cell_ref, 2, Len(cell_ref))
        r == DigitsToInt(Strip(rowText))
        value == get_cell_value_with_fallback(PrimValue(p.formulas, r, col),
                                              PrimValue(p.data, r, col))
    IN  IF refs = <<>> THEN [kind |-> "fallback", v |-> RNone]
        ELSE IF Upper(sheet_name) # "PRIMITIVE" THEN [kind |-> "fallback", v |-> RNone]
        ELSE IF Len(cell_ref) = 0 \/ col = 0 THEN [kind |-> "error", v |-> RNone]
        ELSE IF ~IsIntLiteral(rowText) \/ r < 1 THEN [kind |-> "error", v |-> RNone]
        ELSE IF value # RNone THEN [kind |-> "value", v |-> value]
        ELSE [kind |-> "fallback", v |-> RNone]

\* what the GPT-4 call can come to: a number, or None ('none', an answer
\* that is no number, or an exception)
LlmAnswers == {RNone, Rat(9, 1)}

(***************************************************************************)
(* excel/utils/structure.py: the PRIMITIVE formula evaluator               *)
(***************************************************************************)
RECURSIVE column_letter_to_number(_)
column_letter_to_number(letters) ==
    IF Len(letters) = 0 THEN 0
    ELSE column_letter_to_number(SubSeq(letters, 1, Len(letters) - 1)) * 26
            + IndexIn(UpperChar(CharAt(letters, Len(letters))), UpperLetters)

\* get_cell_value_by_ref; depth counts the nested calls
RECURSIVE get_cell_value_by_ref(_, _, _)
get_cell_value_by_ref(cell_ref, sh, depth) ==
    LET col_letters == FilterAlpha(cell_ref)
        row_num == FilterDigits(cell_ref)
        r == DigitsToInt(row_num)
        cell_value == PrimValue(sh, r, column_letter_to_number(col_letters))
        parts == Split(SubSeq(cell_value.s, 2, Len(cell_value.s)), "/")
        numerator == get_cell_value_by_ref(RemoveChar(Strip(parts[1]), "$"), sh, depth + 1)
        denominator == get_cell_value_by_ref(RemoveChar(Strip(parts[2]), "$"), sh, depth + 1)
    IN  IF depth > MaxDepth THEN RNone
        ELSE IF col_letters = "" \/ row_num = "" THEN RNone
        ELSE IF r < 1 THEN RNone
        ELSE IF cell_value.t = "none" THEN RNone
        ELSE IF cell_value.t = "num" THEN Rat(cell_value.n, 1)
        ELSE IF StartsWith(cell_value.s, "=") /\ Contains(cell_value.s, "/")
        THEN IF numerator # RNone /\ denominator # RNone /\ denominator.n # 0
             THEN RDiv(numerator, denominator)
             ELSE RNone
        ELSE RNone

\* the nested calls of get_cell_value_by_ref exhaust the interpreter's stack
\* (RecursionError, caught by `except Exception`): nothing in the function
\* bounds the depth, MaxDepth stands for the interpreter's recursion limit
RECURSIVE RaisesRecursionError(_, _, _)
RaisesRecursionError(cell_ref, sh, depth) ==
    LET col_letters == FilterAlpha(cell_ref)
        row_num == FilterDigits(cell_ref)
        r == DigitsToInt(row_num)
        cell_value == PrimValue(sh, r, column_letter_to_number(col_letters))
        parts == Split(SubSeq(cell_value.s, 2, Len(cell_value.s)), "/")
    IN  IF depth > MaxDepth THEN TRUE
        ELSE IF col_letters = "" \/ row_num = "" THEN FALSE
        ELSE IF r < 1 THEN FALSE
        ELSE IF cell_value.t # "str" THEN FALSE
        ELSE IF StartsWith(cell_value.s, "=") /\ Contains(cell_value.s, "/")
        THEN \/ RaisesRecursionError(RemoveChar(Strip(parts[1]), "$"), sh, depth + 1)
             \/ RaisesRecursionError(RemoveChar(Strip(parts[2]), "$"), sh, depth + 1)
        ELSE FALSE

\* a loop that keeps the first resolved factor only
RECURSIVE MultiplyPartsFirstOnly(_, _, _, _)
MultiplyPartsFirstOnly(parts, i, sh, acc) ==
    IF i > Len(parts) THEN acc
    ELSE IF Contains(parts[i], "PRIMITIVE!")
    THEN LET value == get_cell_value_by_ref(
                          RemoveSub(Strip(parts[i]), "PRIMITIVE!"), sh, 0)
         IN  IF value # RNone THEN value ELSE Rat(0, 1)
    ELSE MultiplyPartsFirstOnly(parts, i + 1, sh, acc)

\* the loop of evaluate_primitive_formula over parts[i..]: "zero" is the
\* early `return 0` on a reference that gives None
RECURSIVE MultiplyParts(_, _, _, _)
MultiplyParts(parts, i, sh, acc) ==
    IF i > Len(parts) THEN acc
    ELSE IF Contains(parts[i], "PRIMITIVE!")
    THEN LET value == get_cell_value_by_ref(
                          RemoveSub(Strip(parts[i]), "PRIMITIVE!"), sh, 0)
         IN  IF value # RNone
             THEN MultiplyParts(parts, i + 1, sh, RMul(acc, value))
             ELSE Rat(0, 1)
    ELSE MultiplyParts(parts, i + 1, sh, acc)

\* evaluate_primitive_formula of a str (anything else gives 0)
evaluate_primitive_formula(f, sh) ==
    IF f = "" THEN Rat(0, 1)
    ELSE IF Contains(f, "PRIMITIVE!") THEN MultiplyParts(Split(f, "*"), 1, sh, Rat(1, 1))
    ELSE Rat(0, 1)

(***************************************************************************)
(* structure_analyzer.py: find_element_catalog_interval                    *)
(***************************************************************************)
\* a separator test that stops at empty cells too
IsSeparatorValueLoose(v) == is_empty_or_dashes(v)

\* the separator test of both loops:
\* is_empty_or_dashes(v) and isinstance(v, str) and "-" in v
IsSeparatorValue(v) ==
    is_empty_or_dashes(v) /\ v.t = "str" /\ Contains(v.s, "-")

\* while start_row > 1: ... break on a separator at start_row - 1
RECURSIVE WalkBack(_, _)
WalkBack(sh, start_row) ==
    IF start_row > 1
    THEN IF IsSeparatorValue(get_cell_value(sh, start_row - 1, "B"))
         THEN start_row
         ELSE WalkBack(sh, start_row - 1)
    ELSE start_row

\* while end_row <= max_row: ... ; if end_row > max_row: end_row = max_row
RECURSIVE WalkForward(_, _, _)
WalkForward(sh, start_row, end_row) ==
    IF end_row <= Len(sh)
    THEN IF end_row > start_row /\ IsSeparatorValue(get_cell_value(sh, end_row, "B"))
         THEN end_row - 1
         ELSE WalkForward(sh, start_row, end_row + 1)
    ELSE Len(sh)

find_element_catalog_interval(sh, r) ==
    LET start_row == WalkBack(sh, r)
    IN  <<start_row, WalkForward(sh, start_row, start_row)>>

(***************************************************************************)
(* structure_analyzer.py: determine_cost_type                              *)
(***************************************************************************)
\* isinstance(mandatory_value, str) and mandatory_value.upper().strip() == "M"
IsMandatory(v) == v.t = "str" /\ Strip(Upper(v.s)) = "M"

\* the keyword a WBS cell holds: "FIXED", "CANONE" or "" (none)
WbsKeyword(v) ==
    IF v.t = "str" /\ Strip(Upper(v.s)) = "FIXED" THEN "FIXED"
    ELSE IF v.t = "str" /\ Strip(Upper(v.s)) = "CANONE" THEN "CANONE"
    ELSE ""

\* for r in range(interval_start, interval_end + 1): ... break on a keyword
RECURSIVE ScanWbs(_, _, _)
ScanWbs(sh, r, interval_end) ==
    IF r > interval_end THEN ""
    ELSE IF WbsKeyword(get_cell_value(sh, r, "D")) # ""
         THEN WbsKeyword(get_cell_value(sh, r, "D"))
         ELSE ScanWbs(sh, r + 1, interval_end)

\* the default that ignores the mandatory flag when no keyword is found
ComposeCostTypeDefaultOptional(wbs_type, is_mandatory) ==
    IF wbs_type = "FIXED"
    THEN (IF is_mandatory THEN "Fixed Mandatory" ELSE "Fixed Optional")
    ELSE IF wbs_type = "CANONE"
    THEN (IF is_mandatory THEN "Fee Mandatory" ELSE "Fee Optional")
    ELSE "Fee Optional"

\* if wbs_type == "FIXED": ... elif wbs_type == "CANONE": ... else: ...
ComposeCostType(wbs_type, is_mandatory) ==
    IF wbs_type = "FIXED"
    THEN (IF is_mandatory THEN "Fixed Mandatory" ELSE "Fixed Optional")
    ELSE IF wbs_type = "CANONE"
    THEN (IF is_mandatory THEN "Fee Mandatory" ELSE "Fee Optional")
    ELSE (IF is_mandatory THEN "Fee Mandatory" ELSE "Fee Optional")

\* a classifier that looks for the keyword from the classified row on, not
\* from the start of its interval
determine_cost_type_from_row(r, sh) ==
    LET iv == find_element_catalog_interval(sh, r)
        is_mandatory == IsMandatory(get_cell_value(sh, r, "F"))
        wbs_type == ScanWbs(sh, r, iv[2])
    IN  ComposeCostType(wbs_type, is_mandatory)

determine_cost_type(r, sh) ==
    LET iv == find_element_catalog_interval(sh, r)
        is_mandatory == IsMandatory(get_cell_value(sh, r, "F"))
        wbs_type == ScanWbs(sh, iv[1], iv[2])
    IN  ComposeCostType(wbs_type, is_mandatory)

(***************************************************************************)
(* excel_migration.py: determine_cost_type (the first version of the tool: *)
(* the WBS keyword alone decides, the mandatory flag is not read)          *)
(***************************************************************************)
legacy_determine_cost_type(r, sh) ==
    LET iv == find_element_catalog_interval(sh, r)
        wbs_type == ScanWbs(sh, iv[1], iv[2])
    IN  IF wbs_type = "FIXED" THEN "Fixed Optional" ELSE "Fee Optional"

(***************************************************************************)
(* Rows of the SCHEMA sheet.  A row holds the columns the code reads:      *)
(* A (type), B (service element / name), bold (font.b of B), C, D (WBS),   *)
(* F (mandatory flag), H and I (costs; Hf is H in the formulas workbook),  *)
(* M (canone).                                                             *)
(***************************************************************************)
MkRow(b, bold, d, f) ==
    [A |-> None, B |-> b, bold |-> bold, C |-> None, D |-> d, F |-> f,
     H |-> None, Hf |-> None, I |-> None, M |-> None]

RECURSIVE SeqsUpTo(_, _)
SeqsUpTo(S, n) ==
    IF n = 0 THEN {<<>>}
    ELSE LET shorter == SeqsUpTo(S, n - 1)
         IN  shorter \cup {Append(q, x) : q \in {p \in shorter : Len(p) = n - 1}, x \in S}

\* name-column values: text, empty, blank, dash-only (with and without
\* surrounding blanks), text starting with a dash, a number
ScanNames == {None, Str(""), Str("a"), Str("-"), Str(" -- "), Str("-a"), Num(5)}

ScanRows == {MkRow(b, FALSE, None, None) : b \in ScanNames}

ScanSheets == SeqsUpTo(ScanRows, MaxScanRows) \ {<<>>}

\* the resolver's variables in a run that resolves no formula
\* no reference converted yet, or a conversion that raised
NoAddress == <<0, 0>>

NoResolve ==
    /\ formula = ""
    /\ prim = [data |-> <<>>, formulas |-> <<>>]
    /\ chain = <<>>
    /\ view = "data"
    /\ result = RNone
    /\ llm = 0
    /\ sum_range = <<0, 0, 0, 0>>
    /\ filename = ""
    /\ extracted = <<>>
    /\ calls = <<>>
    /\ address = NoAddress

\* create_element's `return None`
NoElement ==
    [ok |-> FALSE, name |-> None, element_type |-> "", cost_type |-> "",
     row |-> 0, length |-> None]

\* the orchestrator's variables in a run that migrates no sheet
\* no task is run
NoTask == [source_rows |-> <<>>, rules |-> <<>>, task_type |-> "", rule_executor |-> FALSE,
           saved |-> <<>>, success |-> "running"]

NoMigrate ==
    /\ primitive = FALSE
    /\ schema = TRUE
    /\ current_output_row = 2
    /\ processed_rows = {}
    /\ out = <<>>
    /\ emitted = <<>>
    /\ element = NoElement
    /\ task = NoTask

(***************************************************************************)
(* SpecScan: find_element_catalog_interval applied to any row of any sheet *)
(***************************************************************************)
InitScan ==
    /\ sheet \in ScanSheets
    /\ row \in 1..Len(sheet)
    /\ pc = "ready"
    /\ interval = <<0, 0>>
    /\ cost_type = "unset"
    /\ NoResolve
    /\ NoMigrate

CallFindInterval ==
    /\ pc = "ready"
    /\ interval' = find_element_catalog_interval(sheet, row)
    /\ pc' = "interval"
    /\ UNCHANGED <<sheet, row, cost_type, resolveVars, migrateVars>>

NextScan == CallFindInterval

SpecScan == InitScan /\ [][NextScan]_vars

(***************************************************************************)
(* SpecCost: determine_cost_type applied to any row of any sheet           *)
(***************************************************************************)
CostNames == {Str("a"), Str("--")}
CostWbs == {None, Str("FIXED"), Str(" canone"), Str("x")}
CostFlags == {None, Str(" m")}

CostRows == {MkRow(b, FALSE, d, f) : b \in CostNames, d \in CostWbs, f \in CostFlags}

CostSheets == SeqsUpTo(CostRows, MaxCostRows) \ {<<>>}

InitCost ==
    /\ sheet \in CostSheets
    /\ row \in 1..Len(sheet)
    /\ pc = "ready"
    /\ interval = <<0, 0>>
    /\ cost_type = "unset"
    /\ NoResolve
    /\ NoMigrate

CallDetermineCostType ==
    /\ pc = "ready"
    /\ interval' = find_element_catalog_interval(sheet, row)
    /\ cost_type' = determine_cost_type(row, sheet)
    /\ pc' = "cost"
    /\ UNCHANGED <<sheet, row, resolveVars, migrateVars>>

CallLegacyDetermineCostType ==
    /\ pc = "ready"
    /\ interval' = find_element_catalog_interval(sheet, row)
    /\ cost_type' = legacy_determine_cost_type(row, sheet)
    /\ pc' = "legacy_cost"
    /\ UNCHANGED <<sheet, row, resolveVars, migrateVars>>

NextCost == CallDetermineCostType \/ CallLegacyDetermineCostType

SpecCost == InitCost /\ [][NextCost]_vars

(***************************************************************************)
(* SpecResolve: the two resolvers applied to a formula written from a      *)
(* chain of references, over a PRIMITIVE sheet of four cells               *)
(***************************************************************************)
\* the tokens a chain is made of: references into PRIMITIVE (A1, B1, B2,
\* the two-letter column AA2, the empty cell C9, B2 with the sheet name in
\* lower case) and a bare cell reference
Tokens == {"PRIMITIVE!A1", "PRIMITIVE!B1", "PRIMITIVE!B2", "PRIMITIVE!AA2",
           "PRIMITIVE!C9", "primitive!B2", "H5"}

Chains == SeqsUpTo(Tokens, MaxChain) \ {<<>>}

\* "*".join(chain)
RECURSIVE JoinChain(_)
JoinChain(c) ==
    IF Len(c) = 1 THEN c[1] ELSE c[1] \o "*" \o JoinChain(Tail(c))

\* a cell of the workbook as its two views: <<cached value, formula text>>.
\* A constant reads the same in both; a formula cell reads as its text in
\* the formula view and as its cached number, or None, in the value view
Literal(v) == <<v, v>>
A1Cells == {Literal(Num(3)), Literal(Num(0)), Literal(None), Literal(Str("x")),
            <<Num(2), Str("=B2/B1")>>, <<None, Str("=B2/B1")>>,
            <<None, Str("=A1/B1")>>}
B1Cells == {Literal(Num(4)), Literal(Num(0)), Literal(Str("x"))}
B2Cells == {Literal(Num(5)), <<Num(6), Str("=A1/$B$1")>>}
AA2Cells == {Literal(Num(7))}

\* cell coordinates <<row, column>>
CellA1 == <<1, 1>>
CellB1 == <<1, 2>>
CellB2 == <<2, 2>>
CellAA2 == <<2, 27>>

PrimSheets ==
    {[data |-> (CellA1 :> a[1] @@ CellB1 :> b[1] @@ CellB2 :> c[1] @@ CellAA2 :> d[1]),
      formulas |-> (CellA1 :> a[2] @@ CellB1 :> b[2] @@ CellB2 :> c[2] @@ CellAA2 :> d[2])] :
        a \in A1Cells, b \in B1Cells, c \in B2Cells, d \in AA2Cells}

InitResolve ==
    /\ sheet = <<>>
    /\ row = 0
    /\ pc = "ready"
    /\ interval = <<0, 0>>
    /\ cost_type = "unset"
    /\ chain \in Chains
    /\ \E lead \in {"", "="} : formula = lead \o JoinChain(chain)
    /\ prim \in PrimSheets
    /\ view = "data"
    /\ result = RNone
    /\ llm = 0
    /\ sum_range = <<0, 0, 0, 0>>
    /\ filename = ""
    /\ extracted = <<>>
    /\ calls = <<>>
    /\ address = NoAddress
    /\ NoMigrate

\* _analyze_single_formula: the direct extraction, then the GPT-4 call
CallAnalyzeSingleFormula ==
    /\ pc = "ready"
    /\ LET d == DirectExtraction(formula, prim)
       IN  \/ /\ d.kind = "value"
              /\ result' = d.v
              /\ llm' = llm
           \/ /\ d.kind = "error"
              /\ result' = RNone
              /\ llm' = llm
           \/ /\ d.kind = "fallback"
              /\ \E answer \in LlmAnswers : result' = answer
              /\ llm' = llm + 1
    /\ pc' = "analyzed"
    /\ UNCHANGED <<scanVars, migrateVars, formula, prim, chain, view, sum_range, filename, extracted, calls, address>>

\* evaluate_primitive_formula on either view of the PRIMITIVE sheet
CallEvaluatePrimitiveFormula ==
    /\ pc = "ready"
    /\ \E w \in {"data", "formulas"} :
          /\ view' = w
          /\ result' = evaluate_primitive_formula(formula, prim[w])
    /\ pc' = "evaluated"
    /\ UNCHANGED <<scanVars, migrateVars, formula, prim, chain, llm, sum_range, filename, extracted, calls, address>>

NextResolve == CallAnalyzeSingleFormula \/ CallEvaluatePrimitiveFormula

SpecResolve == InitResolve /\ [][NextResolve]_vars

(***************************************************************************)
(* migrate_excel of excel/migrator.py: the loop over the SCHEMA sheet's    *)
(* rows, one action per path through the loop body.                        *)
(***************************************************************************)
\* most sub-elements of the catalog sheets the orchestrator is run on
MaxSubElements == 10
\* longest sheet built from the row alphabet
MaxMigrateRows == 4

\* structure_analyzer.find_header_row: the first row whose column A holds
\* "Portfolio", row 1 when there is none
RECURSIVE find_header_row_from(_, _)
find_header_row_from(sh, r) ==
    IF r > Len(sh) THEN 1
    ELSE IF get_cell_value(sh, r, "A") = Str("Portfolio") THEN r
    ELSE find_header_row_from(sh, r + 1)

find_header_row(sh) == find_header_row_from(sh, 1)

\* Python truth of a cell value
Truthy(v) ==
    \/ v.t = "str" /\ v.s # ""
    \/ v.t = "num" /\ v.n # 0

\* is_number: Decimal(str(value)) succeeds (numbers and digit strings)
is_number(v) ==
    \/ v.t = "num"
    \/ v.t = "str" /\ IsIntLiteral(v.s)

\* float(value) of a value that is_number accepts
ToFloat(v) == IF v.t = "num" THEN v ELSE Num(DigitsToInt(Strip(v.s)))

\* an output row nothing was written to
EmptyOut ==
    [A |-> None, B |-> None, C |-> None, D |-> None, L |-> None, M |-> None,
     N |-> None, O |-> None, P |-> None, Q |-> None, src |-> 0]

\* output_sheet.cell(row=o, ...) of the sheet o_sheet
OutCell(o_sheet, o) == IF o \in DOMAIN o_sheet THEN o_sheet[o] ELSE EmptyOut

\* f"=SUM({col}{first}:{col}{last})"
SumFormula(col, first, last) ==
    "=SUM(" \o col \o ToString(first) \o ":" \o col \o ToString(last) \o ")"

\* the scan for sub-elements below an element catalog row: rows r.. up to
\* the first name holding "---", keeping non-empty, non-dash names
RECURSIVE ScanSubElements(_, _)
ScanSubElements(sh, r) ==
    IF r > Len(sh) THEN <<>>
    ELSE LET sub_value == get_cell_value(sh, r, "B")
         IN  IF Truthy(sub_value) /\ sub_value.t = "str" /\ Contains(sub_value.s, "---")
             THEN <<>>
             ELSE IF Truthy(sub_value) /\ ~is_empty_or_dashes(sub_value)
             THEN <<r>> \o ScanSubElements(sh, r + 1)
             ELSE ScanSubElements(sh, r + 1)

\* cost_type in ['Fixed Optional', 'Fixed Mandatory']
IsFixed(ct) == ct \in {"Fixed Optional", "Fixed Mandatory"}

\* formula and isinstance(formula, str), of column H in the formulas workbook
HasFormula(sh, r) ==
    LET f == get_cell_value(sh, r, "Hf") IN f.t = "str" /\ f.s # ""

\* a body that is left at `continue` whenever the try block fails, with or
\* without a PRIMITIVE sheet
LeavesAtAnyFailure(sh, r) ==
    /\ IsFixed(determine_cost_type(r, sh))
    /\ HasFormula(sh, r)

\* the row leaves the loop body at `continue` because the workbook has no
\* PRIMITIVE sheet; with one, the call of analyze_startup_days raises
\* (five arguments for six parameters), `except Exception` logs it and the
\* body goes on
LeavesAtMissingPrimitive(sh, r) ==
    /\ IsFixed(determine_cost_type(r, sh))
    /\ HasFormula(sh, r)
    /\ ~primitive

\* the cells of output row o after the name, the cost type and the Canone
\* Prezzo Mese of source row r were written to it
WithNamedRow(o_sheet, o, sh, r) ==
    LET canone_value == get_cell_value(sh, r, "M")
        named == [OutCell(o_sheet, o) EXCEPT
                     !.B = get_cell_value(sh, r, "B"),
                     !.src = r,
                     !.C = Str(determine_cost_type(r, sh))]
    IN  IF is_number(canone_value)
        THEN [named EXCEPT !.N = ToFloat(canone_value)]
        ELSE named

\* the rows the sheets are built from: the header, a bold element catalog
\* row, a Fixed row with a PRIMITIVE formula in column H, a Fee row whose
\* Canone Prezzo Mese is a digit string, a "---" separator, a single dash,
\* an empty row
HeaderRow == [MkRow(Str("Service Element"), TRUE, None, None) EXCEPT !.A = Str("Portfolio")]
CatalogRow == MkRow(Str("E"), TRUE, None, None)
FixedRow ==
    [MkRow(Str("s"), FALSE, Str("FIXED"), None) EXCEPT
        !.H = Num(5), !.Hf = Str("=PRIMITIVE!B2"), !.M = Num(3)]
FeeRow == [MkRow(Str("t"), FALSE, Str("CANONE"), Str("M")) EXCEPT !.M = Str("4")]
SeparatorRow == MkRow(Str("---"), FALSE, None, None)
DashRow == [MkRow(Str("-"), FALSE, None, None) EXCEPT !.M = Num(2)]
BlankRow == MkRow(None, FALSE, None, None)

MigrateRows == {HeaderRow, CatalogRow, FixedRow, FeeRow, SeparatorRow, DashRow, BlankRow}

\* k copies of a row
RECURSIVE Repeat(_, _)
Repeat(x, k) == IF k = 0 THEN <<>> ELSE <<x>> \o Repeat(x, k - 1)

\* a catalog with k sub-elements, closed by a separator and followed by
\* one more named row
CatalogSheet(k) ==
    <<HeaderRow, CatalogRow>> \o Repeat(FeeRow, k) \o <<SeparatorRow, FeeRow>>

\* sub-elements that carry their own WBS keyword and mandatory flag
FixedMandatoryRow == MkRow(Str("fm"), FALSE, Str("FIXED"), Str("M"))
FeeOptionalRow == MkRow(Str("fo"), FALSE, Str("CANONE"), None)

\* a bold element followed by a Fixed Mandatory and a Fee Optional
\* sub-element, with and without separators around the catalog
TwoKindSheets ==
    {<<HeaderRow, CatalogRow, FixedMandatoryRow, FeeOptionalRow>>,
     <<HeaderRow, CatalogRow, FixedMandatoryRow, FeeOptionalRow, SeparatorRow>>,
     <<HeaderRow, SeparatorRow, CatalogRow, FixedMandatoryRow, FeeOptionalRow,
       SeparatorRow, FeeRow>>}

MigrateSheets ==
    (SeqsUpTo(MigrateRows, MaxMigrateRows) \ {<<>>})
        \cup {CatalogSheet(k) : k \in 0..MaxSubElements}
        \cup TwoKindSheets

\* the PRIMITIVE sheet of the workbooks that have one: B2 holds 7
MigratePrim ==
    [data |-> (CellB2 :> Num(7)), formulas |-> (CellB2 :> Num(7))]

InitMigrate ==
    /\ \/ schema = TRUE /\ sheet \in MigrateSheets
       \/ schema = FALSE /\ sheet = <<>>
    /\ primitive \in BOOLEAN
    /\ row = 0
    /\ pc = "ready"
    /\ interval = <<0, 0>>
    /\ cost_type = "unset"
    /\ formula = ""
    /\ prim = IF primitive THEN MigratePrim ELSE [data |-> <<>>, formulas |-> <<>>]
    /\ chain = <<>>
    /\ view = "data"
    /\ result = RNone
    /\ llm = 0
    /\ sum_range = <<0, 0, 0, 0>>
    /\ filename = ""
    /\ extracted = <<>>
    /\ calls = <<>>
    /\ address = NoAddress
    /\ current_output_row = 2
    /\ processed_rows = {}
    /\ out = <<>>
    /\ emitted = <<>>
    /\ element = NoElement
    /\ task = NoTask

\* header_row = find_header_row(input_sheet); the loop starts below it
\* if "SCHEMA" not in input_wb_data.sheetnames: raise ValueError, which the
\* outermost except clause turns into `return False`
SchemaMissing ==
    /\ pc = "ready"
    /\ ~schema
    /\ pc' = "failed"
    /\ UNCHANGED <<sheet, row, interval, cost_type, resolveVars, migrateVars>>

FindHeaderRow ==
    /\ pc = "ready"
    /\ schema
    /\ row' = find_header_row(sheet) + 1
    /\ pc' = "loop"
    /\ UNCHANGED <<sheet, interval, cost_type, resolveVars, migrateVars>>

InLoop == pc = "loop" /\ row <= Len(sheet)

service_element == get_cell_value(sheet, row, "B")

\* `continue` on an empty name cell or a row already written as sub-element
SkipRow ==
    /\ InLoop
    /\ service_element = None \/ row \in processed_rows
    /\ row' = row + 1
    /\ UNCHANGED <<pc, sheet, interval, cost_type, resolveVars, migrateVars>>

\* an empty or dash-only name: column P of the current output row gets the
\* Canone Prezzo Mese or 0; the counter stays
EmptyOrDashRow ==
    /\ InLoop
    /\ service_element # None /\ row \notin processed_rows
    /\ is_empty_or_dashes(service_element)
    /\ LET canone_value == get_cell_value(sheet, row, "M")
           o == current_output_row
       IN  out' = [x \in DOMAIN out \cup {o} |->
                     IF x = o
                     THEN [OutCell(out, o) EXCEPT
                              !.P = IF is_number(canone_value)
                                    THEN ToFloat(canone_value) ELSE Num(0)]
                     ELSE out[x]]
    /\ row' = row + 1
    /\ UNCHANGED <<pc, sheet, interval, cost_type, resolveVars,
                   primitive, schema, task, current_output_row, processed_rows, emitted, element>>

Named ==
    /\ InLoop
    /\ service_element # None /\ row \notin processed_rows
    /\ ~is_empty_or_dashes(service_element)

\* a Fixed row with a formula in a workbook without PRIMITIVE: name and cost
\* type are written, then `continue` leaves the body before the counter moves
MissingPrimitiveRow ==
    /\ Named
    /\ LeavesAtMissingPrimitive(sheet, row)
    /\ LET o == current_output_row
       IN  out' = [x \in DOMAIN out \cup {o} |->
                     IF x = o
                     THEN [OutCell(out, o) EXCEPT
                              !.B = service_element, !.src = row,
                              !.C = Str(determine_cost_type(row, sheet))]
                     ELSE out[x]]
    /\ row' = row + 1
    /\ UNCHANGED <<pc, sheet, interval, cost_type, resolveVars,
                   primitive, schema, task, current_output_row, processed_rows, emitted, element>>

\* a bold row: the SUM formula over the nine rows below, its sub-elements
\* (found by ScanSubElements) written below it, dashes up to nine rows,
\* and the counter moved by ten
ElementCatalogRow ==
    /\ Named
    /\ ~LeavesAtMissingPrimitive(sheet, row)
    /\ sheet[row].bold
    /\ LET o == current_output_row
           sub_elements == ScanSubElements(sheet, row + 1)
           k == Len(sub_elements)
           first == o + 1
           last == IF k > 9 THEN o + k ELSE o + 9
       IN  /\ out' = [x \in DOMAIN out \cup (o..last) |->
                       IF x = o
                       THEN [WithNamedRow(out, o, sheet, row) EXCEPT
                                !.P = Str(SumFormula("P", o + 1, o + 9))]
                       ELSE IF x \in first..(o + k)
                       THEN LET sub_row == sub_elements[x - o]
                            IN  [OutCell(out, x) EXCEPT
                                    !.B = get_cell_value(sheet, sub_row, "B"),
                                    !.src = sub_row,
                                    !.P = IF HasFormula(sheet, sub_row)
                                          THEN get_cell_value(sheet, sub_row, "Hf")
                                          ELSE @]
                       ELSE IF x \in (o + k + 1)..(o + 9)
                       THEN [OutCell(out, x) EXCEPT !.B = Str("-"), !.src = 0]
                       ELSE out[x]]
           /\ processed_rows' = processed_rows \cup {sub_elements[i] : i \in 1..k}
           /\ emitted' = [r \in DOMAIN emitted \cup {row} \cup {sub_elements[i] : i \in 1..k} |->
                           IF r = row THEN o
                           ELSE IF \E i \in 1..k : sub_elements[i] = r
                           THEN o + (CHOOSE i \in 1..k : sub_elements[i] = r)
                           ELSE emitted[r]]
           /\ current_output_row' = o + 1 + 9
    /\ row' = row + 1
    /\ UNCHANGED <<pc, sheet, interval, cost_type, resolveVars, primitive, schema, task, element>>

\* a row that is not bold: its Canone Prezzo Mese goes to column P and the
\* counter moves by one
SubElementRow ==
    /\ Named
    /\ ~LeavesAtMissingPrimitive(sheet, row)
    /\ ~sheet[row].bold
    /\ LET o == current_output_row
           canone_value == get_cell_value(sheet, row, "M")
           named == WithNamedRow(out, o, sheet, row)
       IN  /\ out' = [x \in DOMAIN out \cup {o} |->
                       IF x = o
                       THEN IF is_number(canone_value)
                            THEN [named EXCEPT !.P = ToFloat(canone_value)]
                            ELSE named
                       ELSE out[x]]
           /\ emitted' = [r \in DOMAIN emitted \cup {row} |->
                           IF r = row THEN o ELSE emitted[r]]
           /\ current_output_row' = o + 1
    /\ row' = row + 1
    /\ UNCHANGED <<pc, sheet, interval, cost_type, resolveVars, primitive, schema, task,
                   processed_rows, element>>

\* the loop is over
FinishMigrate ==
    /\ pc = "loop"
    /\ row > Len(sheet)
    /\ pc' = "done"
    /\ UNCHANGED <<sheet, row, interval, cost_type, resolveVars, migrateVars>>

NextMigrate ==
    \/ SchemaMissing
    \/ FindHeaderRow
    \/ SkipRow
    \/ EmptyOrDashRow
    \/ MissingPrimitiveRow
    \/ ElementCatalogRow
    \/ SubElementRow
    \/ FinishMigrate

SpecMigrate == InitMigrate /\ [][NextMigrate]_vars

(***************************************************************************)
(* SchemaSheetProcessor of excel/processors/base.py with ElementService    *)
(* and CostService: the marker-driven layout (column A holds the type).    *)
(***************************************************************************)
\* longest sheet the processor is run on
MaxProcessRows == 3

\* utils/structure.find_header_row: the first of rows 1..min(10, max_row+1)-1
\* whose column A holds 'Type', row 1 when there is none
RECURSIVE find_type_header_row_from(_, _)
find_type_header_row_from(sh, r) ==
    IF r > Len(sh) \/ r >= 10 THEN 1
    ELSE IF get_cell_value(sh, r, "A") = Str("Type") THEN r
    ELSE find_type_header_row_from(sh, r + 1)

find_type_header_row(sh) == find_type_header_row_from(sh, 1)

\* sheet.cell(row, column).value by column number
ColumnValue(sh, r, c) ==
    CASE c = 1 -> get_cell_value(sh, r, "A")
      [] c = 2 -> get_cell_value(sh, r, "B")
      [] c = 3 -> get_cell_value(sh, r, "C")
      [] c = 4 -> get_cell_value(sh, r, "D")
      [] c = 6 -> get_cell_value(sh, r, "F")
      [] c = 8 -> get_cell_value(sh, r, "H")
      [] c = 9 -> get_cell_value(sh, r, "I")
      [] c = 13 -> get_cell_value(sh, r, "M")
      [] OTHER -> None

\* the sum of the numeric cells among a sequence of cells
RECURSIVE SumNumeric(_)
SumNumeric(cells) ==
    IF cells = <<>> THEN 0
    ELSE (IF Head(cells).t = "num" THEN Head(cells).n ELSE 0) + SumNumeric(Tail(cells))

\* the cells of rows r1..r2 of the first column of the range only
RECURSIVE RangeCellsFirstColumn(_, _, _, _, _, _)
RangeCellsFirstColumn(sh, r, r2, c, c1, c2) ==
    IF r > r2 \/ c1 > c2 THEN <<>>
    ELSE <<ColumnValue(sh, r, c1)>> \o RangeCellsFirstColumn(sh, r + 1, r2, c, c1, c2)

\* the cells of rows r1..r2, columns c1..c2, row by row
RECURSIVE RangeCells(_, _, _, _, _, _)
RangeCells(sh, r, r2, c, c1, c2) ==
    IF r > r2 \/ c1 > c2 THEN <<>>
    ELSE IF c > c2 THEN RangeCells(sh, r + 1, r2, c1, c1, c2)
    ELSE <<ColumnValue(sh, r, c)>> \o RangeCells(sh, r, r2, c + 1, c1, c2)

\* evaluate_sum_formula: 0 unless the formula is =SUM(X1:Y2); any exception
\* (no ':' or more than one, no row digits, row or column 0) gives 0
evaluate_sum_formula(f, sh) ==
    LET range_part == SubSeq(f, 6, Len(f) - 1)
        refs == Split(range_part, ":")
        start_row == DigitsToInt(FilterDigits(refs[1]))
        end_row == DigitsToInt(FilterDigits(refs[2]))
        start_col_num == column_letter_to_number(FilterAlpha(refs[1]))
        end_col_num == column_letter_to_number(FilterAlpha(refs[2]))
    IN  IF ~StartsWith(Upper(f), "=SUM(") THEN Rat(0, 1)
        ELSE IF Len(refs) # 2 THEN Rat(0, 1)
        ELSE IF FilterDigits(refs[1]) = "" \/ FilterDigits(refs[2]) = "" THEN Rat(0, 1)
        ELSE IF start_row > end_row \/ start_col_num > end_col_num THEN Rat(0, 1)
        ELSE IF start_row < 1 \/ start_col_num < 1 THEN Rat(0, 1)
        ELSE Rat(SumNumeric(RangeCells(sh, start_row, end_row, start_col_num,
                                       start_col_num, end_col_num)), 1)

\* a workbook without PRIMITIVE sheet hands None to the classifier
NoPrimitive == [present |-> FALSE, cells |-> <<>>]

\* the value of column H or I after the formulas are evaluated, as float:
\* 0 for None and for text that float() rejects
CostNumeric(v, sh, primitive_sheet) ==
    IF v.t = "none" THEN Rat(0, 1)
    ELSE IF v.t = "num" THEN Rat(v.n, 1)
    ELSE IF Contains(v.s, "PRIMITIVE!")
    THEN IF primitive_sheet.present
         THEN evaluate_primitive_formula(v.s, primitive_sheet.cells)
         ELSE Rat(0, 1)
    ELSE IF StartsWith(Upper(v.s), "=SUM(") THEN evaluate_sum_formula(v.s, sh)
    ELSE IF IsIntLiteral(v.s) THEN Rat(DigitsToInt(Strip(v.s)), 1)
    ELSE Rat(0, 1)

\* utils/structure.determine_cost_type: Fixed Optional when column H is not
\* 0 or the row is a STARTUP sub-element, Fee Optional otherwise
structure_determine_cost_type(r, sh, primitive_sheet) ==
    LET element_name == get_cell_value(sh, r, "B")
        element_type == get_cell_value(sh, r, "C")
        is_startup_subelement ==
            /\ element_type = Str("SubElement")
            /\ element_name.t = "str"
            /\ Contains(Upper(element_name.s), "STARTUP")
        h_numeric == CostNumeric(get_cell_value(sh, r, "H"), sh, primitive_sheet)
    IN  IF h_numeric.n # 0 \/ is_startup_subelement THEN "Fixed Optional"
        ELSE "Fee Optional"

\* str(value) of a cell value that is not None
PyStr(v) == IF v.t = "str" THEN v.s ELSE ToString(v.n)

\* ElementService.create_element: None for a falsy or unknown type in
\* column A (ElementType(...) raises), for a falsy name and for a name that
\* starts with '-'
create_element(r, sh, primitive_sheet) ==
    LET element_type_str == get_cell_value(sh, r, "A")
        name == get_cell_value(sh, r, "B")
    IN  IF ~Truthy(element_type_str) THEN NoElement
        ELSE IF element_type_str \notin {Str("Element"), Str("SubElement")} THEN NoElement
        ELSE IF ~Truthy(name) \/ StartsWith(Strip(PyStr(name)), "-") THEN NoElement
        ELSE [ok |-> TRUE,
              name |-> name,
              element_type |-> element_type_str.s,
              cost_type |-> structure_determine_cost_type(r, sh, primitive_sheet),
              row |-> r,
              length |-> IF element_type_str.s = "Element"
                         THEN Num(Len(PyStr(name))) ELSE None]

\* sheet.max_row of the output sheet, whose row 1 holds the headers
MaxRow(o_sheet) ==
    IF DOMAIN o_sheet = {} THEN 1
    ELSE CHOOSE m \in DOMAIN o_sheet : \A x \in DOMAIN o_sheet : x <= m

\* the loop of _get_subelements_range over rows r..max_row of the sheet it
\* is given, reading the type in column C
RECURSIVE SubelementsEnd(_, _, _)
SubelementsEnd(o_sheet, r, end_row) ==
    IF r > MaxRow(o_sheet) THEN end_row
    ELSE LET cell_type == OutCell(o_sheet, r).C
         IN  IF cell_type = Str("Element") \/ ~Truthy(cell_type) THEN end_row
             ELSE IF cell_type = Str("SubElement")
             THEN SubelementsEnd(o_sheet, r + 1, r)
             ELSE SubelementsEnd(o_sheet, r + 1, end_row)

\* CostService._get_subelements_range
get_subelements_range(element_row, o_sheet) ==
    <<element_row + 1, SubelementsEnd(o_sheet, element_row + 1, element_row + 1)>>

\* self._copy_value: the cell is written unless the source value is None
CopyValue(old, v) == IF v = None THEN old ELSE v

\* the output row after CostService.process_costs for the element
WithCosts(cells, el, sh, o_sheet) ==
    IF el.element_type = "SubElement"
    THEN IF IsFixed(el.cost_type)
         THEN [cells EXCEPT !.L = CopyValue(@, ColumnValue(sh, el.row, 8)),
                            !.N = CopyValue(@, ColumnValue(sh, el.row, 12)),
                            !.M = Str("0.3930")]
         ELSE [cells EXCEPT !.O = CopyValue(@, ColumnValue(sh, el.row, 9)),
                            !.Q = CopyValue(@, ColumnValue(sh, el.row, 13)),
                            !.P = Str("0.3930")]
    ELSE IF IsFixed(el.cost_type)
    THEN LET subelements == get_subelements_range(el.row, o_sheet)
         IN  [cells EXCEPT !.L = Str(SumFormula("L", subelements[1], subelements[2]))]
    ELSE cells

\* the rows of the marker-driven sheets: the 'Type' header, an Element
\* whose cost is a SUM over column H, SubElements with a cost in H, with a
\* fee in I, with a PRIMITIVE formula in H and with a STARTUP name, a row
\* without type, a row with an unknown type, a SubElement whose name starts
\* with a dash, and a separator
TypeHeaderRow == [MkRow(Str("Name"), TRUE, None, None) EXCEPT !.A = Str("Type")]
TypedElement ==
    [MkRow(Str("E"), TRUE, None, None) EXCEPT !.A = Str("Element"), !.H = Str("=SUM(H1:H4)")]
TypedFixed ==
    [MkRow(Str("s"), FALSE, None, None) EXCEPT !.A = Str("SubElement"), !.H = Num(5)]
TypedFee ==
    [MkRow(Num(7), FALSE, None, None) EXCEPT !.A = Str("SubElement"), !.I = Num(2), !.M = Num(3)]
TypedPrimitive ==
    [MkRow(Str("p"), FALSE, None, None) EXCEPT
        !.A = Str("SubElement"), !.H = Str("=PRIMITIVE!B2")]
TypedStartup ==
    [MkRow(Str("Startup"), FALSE, None, None) EXCEPT
        !.A = Str("SubElement"), !.C = Str("SubElement")]
UntypedRow == MkRow(Str("u"), FALSE, None, None)
UnknownTypeRow == [MkRow(Str("v"), FALSE, None, None) EXCEPT !.A = Str("Service")]
DashNameRow == [MkRow(Str("-x"), FALSE, None, None) EXCEPT !.A = Str("SubElement")]

ProcessRows ==
    {TypeHeaderRow, TypedElement, TypedFixed, TypedFee, TypedPrimitive,
     TypedStartup, UntypedRow, UnknownTypeRow, DashNameRow, SeparatorRow}

ProcessSheets == SeqsUpTo(ProcessRows, MaxProcessRows) \ {<<>>}

InitProcess ==
    /\ sheet \in ProcessSheets
    /\ row = 0
    /\ pc = "ready"
    /\ interval = <<0, 0>>
    /\ cost_type = "unset"
    /\ NoResolve
    /\ NoMigrate

\* header_row = find_header_row(source_sheet); the loop starts below it
FindTypeHeaderRow ==
    /\ pc = "ready"
    /\ row' = find_type_header_row(sheet) + 1
    /\ pc' = "process_loop"
    /\ UNCHANGED <<sheet, interval, cost_type, resolveVars, migrateVars>>

\* process_row returns at `if not element`: nothing is written
ProcessRowNoElement ==
    /\ pc = "process_loop" /\ row <= Len(sheet)
    /\ create_element(row, sheet, NoPrimitive) = NoElement
    /\ element' = NoElement
    /\ row' = row + 1
    /\ UNCHANGED <<pc, sheet, interval, cost_type, resolveVars,
                   primitive, schema, task, current_output_row, processed_rows, out, emitted>>

\* process_row for a row create_element accepts: length, name, element type
\* and cost type are written, then the costs; _process_startup_days returns
\* at "Missing primitive sheets" (self.primitive_data is None); the counter
\* moves by one
ProcessRow ==
    /\ pc = "process_loop" /\ row <= Len(sheet)
    /\ create_element(row, sheet, NoPrimitive) # NoElement
    /\ LET el == create_element(row, sheet, NoPrimitive)
           o == current_output_row
           basic == [OutCell(out, o) EXCEPT
                        !.A = IF el.length # None THEN el.length ELSE @,
                        !.B = el.name,
                        !.src = row,
                        !.C = Str(el.element_type),
                        !.D = Str(el.cost_type)]
           written == [x \in DOMAIN out \cup {o} |-> IF x = o THEN basic ELSE out[x]]
       IN  /\ element' = el
           /\ out' = [written EXCEPT ![o] = WithCosts(basic, el, sheet, written)]
           /\ emitted' = [r \in DOMAIN emitted \cup {row} |->
                           IF r = row THEN o ELSE emitted[r]]
           /\ current_output_row' = o + 1
    /\ row' = row + 1
    /\ UNCHANGED <<pc, sheet, interval, cost_type, resolveVars, primitive, schema, task,
                   processed_rows>>

\* the loop is over
FinishProcess ==
    /\ pc = "process_loop"
    /\ row > Len(sheet)
    /\ pc' = "processed"
    /\ UNCHANGED <<sheet, row, interval, cost_type, resolveVars, migrateVars>>

NextProcess ==
    \/ FindTypeHeaderRow
    \/ ProcessRowNoElement
    \/ ProcessRow
    \/ FinishProcess

SpecProcess == InitProcess /\ [][NextProcess]_vars

(***************************************************************************)
(* SpecSum: evaluate_sum_formula applied to a SUM formula written from a   *)
(* range of columns H..I, with and without the leading '='.                *)
(***************************************************************************)
\* longest sheet a SUM formula is evaluated on
MaxSumRows == 3

SumCostsH == {None, Num(1), Str("x")}
SumCostsI == {None, Num(4)}
SumRows ==
    {[MkRow(Str("a"), FALSE, None, None) EXCEPT !.H = h, !.I = i, !.M = Num(16)] :
        h \in SumCostsH, i \in SumCostsI}
SumSheets == SeqsUpTo(SumRows, MaxSumRows) \ {<<>>}

\* the letter of column number c (1..26)
ColumnLetter(c) == CharAt(UpperLetters, c)

\* the text of SUM(c1r1:c2r2)
SumText(rg) ==
    "SUM(" \o ColumnLetter(rg[1]) \o ToString(rg[2]) \o ":"
           \o ColumnLetter(rg[3]) \o ToString(rg[4]) \o ")"

InitSum ==
    /\ sheet \in SumSheets
    /\ row = 0
    /\ pc = "ready"
    /\ interval = <<0, 0>>
    /\ cost_type = "unset"
    /\ sum_range \in {<<c1, r1, c2, r2>> : c1 \in {8, 9}, c2 \in {8, 9},
                         r1 \in 1..(MaxSumRows + 1), r2 \in 1..(MaxSumRows + 1)}
    /\ sum_range[1] <= sum_range[3] /\ sum_range[2] <= sum_range[4]
    /\ \E lead \in {"", "="} : formula = lead \o SumText(sum_range)
    /\ prim = [data |-> <<>>, formulas |-> <<>>]
    /\ chain = <<>>
    /\ view = "data"
    /\ result = RNone
    /\ llm = 0
    /\ filename = ""
    /\ extracted = <<>>
    /\ calls = <<>>
    /\ address = NoAddress
    /\ NoMigrate

CallEvaluateSumFormula ==
    /\ pc = "ready"
    /\ result' = evaluate_sum_formula(formula, sheet)
    /\ pc' = "summed"
    /\ UNCHANGED <<scanVars, migrateVars, formula, prim, chain, view, llm, sum_range, filename, extracted, calls, address>>

NextSum == CallEvaluateSumFormula

SpecSum == InitSum /\ [][NextSum]_vars

(***************************************************************************)
(* SpecOverride: the ratio S25/B13 of the PRIMITIVE sheet, computed by the *)
(* file-specific overrides (excel/startup_rules.py and                     *)
(* excel/rules/startup_rules.py) and by get_cell_value_by_ref on a cell    *)
(* that holds the ratio as a formula.                                      *)
(***************************************************************************)
\* float(value or default): the default for a falsy value; text that float()
\* rejects raises
FloatOr(v, default) ==
    IF ~Truthy(v) THEN [ok |-> TRUE, n |-> default]
    ELSE IF v.t = "num" THEN [ok |-> TRUE, n |-> v.n]
    ELSE IF IsIntLiteral(v.s) THEN [ok |-> TRUE, n |-> DigitsToInt(Strip(v.s))]
    ELSE [ok |-> FALSE, n |-> 0]

\* a test of the file name that ignores the case of the letters
IsCOaaSAnyCase(fname) == Contains(Upper(fname), Upper("COaaS_Schema"))

\* "COaaS_Schema" in filename
IsCOaaS(fname) == Contains(fname, "COaaS_Schema")

\* if b13_value == 0: return None; days = s25_value / b13_value
GuardedRatio(s25, b13) ==
    IF b13.n = 0 THEN RNone ELSE Rat(s25.n, b13.n)

\* excel/startup_rules.get_startup_days_override
get_startup_days_override(fname, has_primitive, data) ==
    LET s25_value == FloatOr(PrimValue(data, 25, 19), 0)
        b13_value == FloatOr(PrimValue(data, 13, 2), 1)
    IN  IF ~has_primitive THEN RNone
        ELSE IF ~IsCOaaS(fname) THEN RNone
        ELSE IF ~s25_value.ok \/ ~b13_value.ok THEN RNone
        ELSE GuardedRatio(s25_value, b13_value)

\* excel/rules/startup_rules.get_startup_days_override with the rule of
\* FileRules.get_startup_days_rule: source cells S25 and B13, and
\* float(s25) / float(b13) if float(b13) != 0 else None
rules_get_startup_days_override(fname, has_primitive, data) ==
    LET s25 == FloatOr(PrimValue(data, 25, 19), 0)
        b13 == FloatOr(PrimValue(data, 13, 2), 0)
    IN  IF ~IsCOaaS(fname) THEN RNone
        ELSE IF ~has_primitive THEN RNone
        ELSE IF ~s25.ok \/ ~b13.ok THEN RNone
        ELSE GuardedRatio(s25, b13)

Filenames == {"COaaS_Schema_Prod.xlsx", "Schema.xlsx", "coaas_schema.xlsx"}
RatioTexts == {"=S25/B13", "=$S$25/ $B$13", "=A1/B13"}
S25Cells == {None, Num(0), Num(6), Str("x"), Str("=B13/A1")}
B13Cells == {None, Num(0), Num(2), Num(4), Str("x"), Str("0")}

CellS25 == <<25, 19>>
CellB13 == <<13, 2>>

\* both views hold the constants of S25 and B13; A1 holds the ratio as a
\* formula in the formula view and no cached value
RatioSheets ==
    {[data |-> (CellA1 :> None @@ CellS25 :> s @@ CellB13 :> b),
      formulas |-> (CellA1 :> Str(t) @@ CellS25 :> s @@ CellB13 :> b)] :
        s \in S25Cells, b \in B13Cells, t \in RatioTexts}

InitOverride ==
    /\ sheet = <<>>
    /\ row = 0
    /\ pc = "ready"
    /\ interval = <<0, 0>>
    /\ cost_type = "unset"
    /\ formula = "A1"
    /\ prim \in RatioSheets
    /\ chain = <<>>
    /\ view = "data"
    /\ result = RNone
    /\ llm = 0
    /\ sum_range = <<0, 0, 0, 0>>
    /\ filename \in Filenames
    /\ extracted = <<>>
    /\ calls = <<>>
    /\ address = NoAddress
    /\ primitive \in BOOLEAN
    /\ schema = TRUE
    /\ current_output_row = 2
    /\ processed_rows = {}
    /\ out = <<>>
    /\ emitted = <<>>
    /\ element = NoElement
    /\ task = NoTask

CallStartupDaysOverride ==
    /\ pc = "ready"
    /\ result' = get_startup_days_override(filename, primitive, prim.data)
    /\ pc' = "override"
    /\ UNCHANGED <<scanVars, migrateVars, formula, prim, chain, view, llm, sum_range, filename, extracted, calls, address>>

CallRulesStartupDaysOverride ==
    /\ pc = "ready"
    /\ result' = rules_get_startup_days_override(filename, primitive, prim.data)
    /\ pc' = "rules_override"
    /\ UNCHANGED <<scanVars, migrateVars, formula, prim, chain, view, llm, sum_range, filename, extracted, calls, address>>

\* get_cell_value_by_ref on the cell that holds the ratio, in either view
CallGetCellValueByRef ==
    /\ pc = "ready"
    /\ \E w \in {"data", "formulas"} :
          /\ view' = w
          /\ result' = get_cell_value_by_ref(formula, prim[w], 0)
    /\ pc' = "ref_resolved"
    /\ UNCHANGED <<scanVars, migrateVars, formula, prim, chain, llm, sum_range, filename, extracted, calls, address>>

NextOverride ==
    \/ CallStartupDaysOverride
    \/ CallRulesStartupDaysOverride
    \/ CallGetCellValueByRef

SpecOverride == InitOverride /\ [][NextOverride]_vars

(***************************************************************************)
(* SpecExtract: the two extract_cell_references, of                        *)
(* excel/cell_operations.py (split on '*' and '!') and of                  *)
(* excel/utils/cell.py (regular expressions), on '*' chains of tokens.     *)
(***************************************************************************)
MaxExtractTokens == 3

\* the last index of the longest run of characters from position i that are
\* in chars (or, with negated, that are not in chars); i - 1 for no character
RECURSIVE RunEnd(_, _, _, _)
RunEnd(s, i, chars, negated) ==
    IF i <= Len(s) /\ ((IndexIn(CharAt(s, i), chars) > 0) # negated)
    THEN RunEnd(s, i + 1, chars, negated)
    ELSE i - 1

\* s[i] = ch, FALSE past the end of s
IsCharAt(s, i, ch) == i >= 1 /\ i <= Len(s) /\ CharAt(s, i) = ch

\* [A-Z]+\d+ at position i: the index of its last character, 0 for no match
MatchPlainCell(s, i) ==
    LET b == RunEnd(s, i, UpperLetters, FALSE)
        d == RunEnd(s, b + 1, Digits, FALSE)
    IN  IF b >= i /\ d >= b + 1 THEN d ELSE 0

\* \$?[A-Z]+\$?\d+ at position i: the index of its last character, 0 for no
\* match
MatchCell(s, i) ==
    LET a == IF IsCharAt(s, i, "$") THEN i + 1 ELSE i
        b == RunEnd(s, a, UpperLetters, FALSE)
        c == IF IsCharAt(s, b + 1, "$") THEN b + 2 ELSE b + 1
        d == RunEnd(s, c, Digits, FALSE)
    IN  IF b >= a /\ d >= c THEN d ELSE 0

\* ([A-Z]+\d+):([A-Z]+\d+)\) at position i
MatchRange(s, i) ==
    LET e1 == MatchPlainCell(s, i)
        e2 == IF e1 > 0 /\ IsCharAt(s, e1 + 1, ":") THEN MatchPlainCell(s, e1 + 2) ELSE 0
    IN  IF e2 > 0 /\ IsCharAt(s, e2 + 1, ")")
        THEN [ok |-> TRUE, start_cell |-> SubSeq(s, i, e1),
              end_cell |-> SubSeq(s, e1 + 2, e2), last |-> e2 + 1]
        ELSE [ok |-> FALSE, start_cell |-> "", end_cell |-> "", last |-> 0]

\* sum_pattern at position i: SUM\( then the optional ([^!]+)! (tried first)
\* then the range
MatchSum(s, i) ==
    LET p == i + 4
        e == RunEnd(s, p, "!", TRUE)
        withSheet == IF e >= p /\ IsCharAt(s, e + 1, "!")
                     THEN MatchRange(s, e + 2)
                     ELSE MatchRange("", 1)
        plain == MatchRange(s, p)
    IN  IF ~(i + 3 <= Len(s) /\ SubSeq(s, i, i + 3) = "SUM(")
        THEN [ok |-> FALSE, sheet |-> "", rg |-> plain]
        ELSE IF withSheet.ok THEN [ok |-> TRUE, sheet |-> SubSeq(s, p, e), rg |-> withSheet]
        ELSE [ok |-> plain.ok, sheet |-> "", rg |-> plain]

\* the loop over range(start_row, end_row + 1): one reference per row, in the
\* start column
RECURSIVE SumRowsOnly(_, _, _, _)
SumRowsOnly(sh, start_col, r, end_row) ==
    IF r > end_row THEN <<>>
    ELSE <<(<<sh, start_col \o ToString(r)>>)>> \o SumRowsOnly(sh, start_col, r + 1, end_row)

\* the references of one match of sum_pattern
SumMatchRefs(m) ==
    SumRowsOnly(IF m.sheet # "" THEN m.sheet ELSE "SCHEMA",
                FilterAlpha(m.rg.start_cell),
                DigitsToInt(FilterDigits(m.rg.start_cell)),
                DigitsToInt(FilterDigits(m.rg.end_cell)))

\* re.finditer(sum_pattern, formula) from position i
RECURSIVE SumMatches(_, _)
SumMatches(s, i) ==
    IF i > Len(s) THEN <<>>
    ELSE LET m == MatchSum(s, i)
         IN  IF m.ok THEN SumMatchRefs(m) \o SumMatches(s, m.rg.last + 1)
             ELSE SumMatches(s, i + 1)

\* cell_pattern at position i: '?([^'!]+)'?! then the cell, else ([^!*]+)!
\* then the cell
MatchCellPattern(s, i) ==
    LET q == IF IsCharAt(s, i, "'") THEN i + 1 ELSE i
        e == RunEnd(s, q, "'!", TRUE)
        r == IF IsCharAt(s, e + 1, "'") THEN e + 2 ELSE e + 1
        c1 == IF e >= q /\ IsCharAt(s, r, "!") THEN MatchCell(s, r + 1) ELSE 0
        e2 == RunEnd(s, i, "!*", TRUE)
        c2 == IF e2 >= i /\ IsCharAt(s, e2 + 1, "!") THEN MatchCell(s, e2 + 2) ELSE 0
    IN  IF c1 > 0
        THEN [ok |-> TRUE, sheet |-> SubSeq(s, q, e), cell |-> SubSeq(s, r + 1, c1), last |-> c1]
        ELSE IF c2 > 0
        THEN [ok |-> TRUE, sheet |-> SubSeq(s, i, e2), cell |-> SubSeq(s, e2 + 2, c2), last |-> c2]
        ELSE [ok |-> FALSE, sheet |-> "", cell |-> "", last |-> 0]

\* re.finditer(cell_pattern, formula) from position i
RECURSIVE CellMatches(_, _)
CellMatches(s, i) ==
    IF i > Len(s) THEN <<>>
    ELSE LET m == MatchCellPattern(s, i)
             sh == IF StartsWith(m.sheet, "=") THEN SubSeq(m.sheet, 2, Len(m.sheet))
                   ELSE m.sheet
         IN  IF m.ok
             THEN <<(<<sh, RemoveChar(m.cell, "$")>>)>> \o CellMatches(s, m.last + 1)
             ELSE CellMatches(s, i + 1)

\* excel/utils/cell.extract_cell_references: the SUM ranges, then the direct
\* references
utils_extract_cell_references(f) == SumMatches(f, 1) \o CellMatches(f, 1)

\* the tokens of a chain: references with a sheet, one with $ signs, a bare
\* reference, SUM over one column and over two columns, and a token with
\* two '!'
ExtractTokens == {"PRIMITIVE!B2", "PRIMITIVE!$C$3", "H5", "SUM(H5:H7)",
                  "SUM(H5:I6)", "X!Y!B2"}

ExtractChains == SeqsUpTo(ExtractTokens, MaxExtractTokens) \ {<<>>}

InitExtract ==
    /\ sheet = <<>>
    /\ row = 0
    /\ pc = "ready"
    /\ interval = <<0, 0>>
    /\ cost_type = "unset"
    /\ chain \in ExtractChains
    /\ \E lead \in {"", "="} : formula = lead \o JoinChain(chain)
    /\ prim = [data |-> <<>>, formulas |-> <<>>]
    /\ view = "data"
    /\ result = RNone
    /\ llm = 0
    /\ sum_range = <<0, 0, 0, 0>>
    /\ filename = ""
    /\ extracted = <<>>
    /\ calls = <<>>
    /\ address = NoAddress
    /\ NoMigrate

\* cell_operations.extract_cell_references(formula, logger)
CallExtractCellReferences ==
    /\ pc = "ready"
    /\ extracted' = extract_cell_references(formula)
    /\ pc' = "extracted"
    /\ UNCHANGED <<scanVars, migrateVars, formula, prim, chain, view, result, llm, sum_range, filename, calls, address>>

\* utils.cell.extract_cell_references(formula)
CallUtilsExtractCellReferences ==
    /\ pc = "ready"
    /\ extracted' = utils_extract_cell_references(formula)
    /\ pc' = "utils_extracted"
    /\ UNCHANGED <<scanVars, migrateVars, formula, prim, chain, view, result, llm, sum_range, filename, calls, address>>

NextExtract == CallExtractCellReferences \/ CallUtilsExtractCellReferences

SpecExtract == InitExtract /\ [][NextExtract]_vars

(***************************************************************************)
(* SpecHeader: the two find_header_row, of excel/utils/structure.py        *)
(* (sentinel 'Type') and of excel/structure_analyzer.py (sentinel          *)
(* "Portfolio"), on sheets long enough to hold a sentinel below row 10.    *)
(***************************************************************************)
MaxHeaderRows == 11

\* a sheet of n rows whose column A holds the label in the rows of S
HeaderSheet(n, S, label) ==
    [i \in 1..n |-> [MkRow(Str("a"), FALSE, None, None)
                        EXCEPT !.A = IF i \in S THEN Str(label) ELSE Str("x")]]

\* sheets with no sentinel row, with one and with two
HeaderSheets ==
    {HeaderSheet(n, S, label) :
        n \in 1..MaxHeaderRows,
        S \in {{p, q} : p, q \in 1..MaxHeaderRows} \cup {{}},
        label \in {"Type", "Portfolio"}}

InitHeader ==
    /\ sheet \in HeaderSheets
    /\ row = 0
    /\ pc = "ready"
    /\ interval = <<0, 0>>
    /\ cost_type = "unset"
    /\ NoResolve
    /\ NoMigrate

\* utils.structure.find_header_row(sheet)
CallFindTypeHeaderRow ==
    /\ pc = "ready"
    /\ row' = find_type_header_row(sheet)
    /\ pc' = "type_header"
    /\ UNCHANGED <<sheet, interval, cost_type, resolveVars, migrateVars>>

\* structure_analyzer.find_header_row(sheet)
CallFindHeaderRow ==
    /\ pc = "ready"
    /\ row' = find_header_row(sheet)
    /\ pc' = "header"
    /\ UNCHANGED <<sheet, interval, cost_type, resolveVars, migrateVars>>

NextHeader == CallFindTypeHeaderRow \/ CallFindHeaderRow

SpecHeader == InitHeader /\ [][NextHeader]_vars

(***************************************************************************)
(* SpecAnalyze: StartupDaysAnalyzer.analyze_startup_days on a row of the   *)
(* SCHEMA sheet that the orchestrator's test lets through (a Fixed cost    *)
(* type and a formula text in column H, migrator.py:143-149).              *)
(***************************************************************************)
MaxAnalyzeRows == 3

\* _analyze_single_formula with the answer the GPT-4 call would give
analyze_single_formula(f, p, answer) ==
    LET d == DirectExtraction(f, p)
    IN  IF d.kind = "value" THEN [result |-> d.v, called |-> FALSE]
        ELSE IF d.kind = "error" THEN [result |-> RNone, called |-> FALSE]
        ELSE [result |-> answer, called |-> TRUE]

\* the loop of analyze_startup_days over the rows below a bold row: up to a
\* "---" row, every named row with a formula in column H is analysed until
\* one gives a value; answers[r] is what GPT-4 would say of row r
RECURSIVE ScanSubElementsForDays(_, _, _, _)
ScanSubElementsForDays(sh, r, p, answers) ==
    IF r > Len(sh) THEN [result |-> RNone, calls |-> <<>>]
    ELSE LET sub_value == get_cell_value(sh, r, "B")
             sub_formula == get_cell_value(sh, r, "Hf")
             a == analyze_single_formula(sub_formula.s, p, answers[r])
             mine == IF a.called THEN <<r>> ELSE <<>>
             rest == ScanSubElementsForDays(sh, r + 1, p, answers)
         IN  IF Truthy(sub_value) /\ sub_value.t = "str" /\ Contains(sub_value.s, "---")
             THEN [result |-> RNone, calls |-> <<>>]
             ELSE IF /\ Truthy(sub_value) /\ ~is_empty_or_dashes(sub_value)
                     /\ sub_formula.t = "str" /\ StartsWith(sub_formula.s, "=")
             THEN IF a.result # RNone
                  THEN [result |-> a.result, calls |-> mine]
                  ELSE [result |-> rest.result, calls |-> mine \o rest.calls]
             ELSE rest

\* analyze_startup_days(formula, primitive_sheet_formulas,
\* primitive_sheet_data, current_row, sheet, input_sheet_formulas)
analyze_startup_days(f, p, current_row, sh, answers) ==
    IF sh[current_row].bold
    THEN ScanSubElementsForDays(sh, current_row + 1, p, answers)
    ELSE LET a == analyze_single_formula(f, p, answers[current_row])
         IN  [result |-> a.result,
              calls |-> IF a.called THEN <<current_row>> ELSE <<>>]

\* rows: a bold element, sub-elements of either WBS type whose column H
\* refers to B2, to the empty cell C9, or holds a number, and a separator
AnalyzeElementRow ==
    [MkRow(Str("E"), TRUE, Str("Fixed"), None) EXCEPT !.Hf = Str("=SUM(H2:H3)")]
AnalyzeSubRows ==
    {[MkRow(Str("s"), FALSE, d, None) EXCEPT !.Hf = h] :
        d \in {Str("Fixed"), Str("Canone")},
        h \in {Str("=PRIMITIVE!B2"), Str("=PRIMITIVE!C9"), Num(5)}}
AnalyzeRows == {AnalyzeElementRow, SeparatorRow} \cup AnalyzeSubRows
AnalyzeSheets == SeqsUpTo(AnalyzeRows, MaxAnalyzeRows) \ {<<>>}

\* PRIMITIVE: B2 with or without a number, S25 = 6 and B13 = 2
AnalyzePrimSheets ==
    {[data |-> (CellB2 :> b @@ CellS25 :> Num(6) @@ CellB13 :> Num(2)),
      formulas |-> (CellB2 :> b @@ CellS25 :> Num(6) @@ CellB13 :> Num(2))] :
        b \in {Num(5), None}}

InitAnalyze ==
    /\ sheet \in AnalyzeSheets
    /\ row \in 1..Len(sheet)
    /\ pc = "ready"
    /\ interval = <<0, 0>>
    /\ cost_type = "unset"
    /\ formula = sheet[row].Hf.s
    /\ prim \in AnalyzePrimSheets
    /\ chain = <<>>
    /\ view = "data"
    /\ result = RNone
    /\ llm = 0
    /\ sum_range = <<0, 0, 0, 0>>
    /\ filename \in Filenames
    /\ extracted = <<>>
    /\ calls = <<>>
    /\ address = NoAddress
    /\ primitive = TRUE
    /\ schema = TRUE
    /\ current_output_row = 2
    /\ processed_rows = {}
    /\ out = <<>>
    /\ emitted = <<>>
    /\ element = NoElement
    /\ task = NoTask

\* the orchestrator's step for the row: the cost type, the test on it and on
\* the formula of column H, then analyze_startup_days
CallAnalyzeStartupDays ==
    /\ pc = "ready"
    /\ determine_cost_type(row, sheet) \in {"Fixed Optional", "Fixed Mandatory"}
    /\ formula # ""
    /\ cost_type' = determine_cost_type(row, sheet)
    /\ \E answers \in [1..Len(sheet) -> LlmAnswers] :
          LET a == analyze_startup_days(formula, prim, row, sheet, answers)
          IN  /\ result' = a.result
              /\ calls' = a.calls
              /\ llm' = Len(a.calls)
    /\ pc' = "days_analyzed"
    /\ UNCHANGED <<sheet, row, interval, migrateVars, formula, prim, chain, view, sum_range, filename, extracted, address>>

NextAnalyze == CallAnalyzeStartupDays

SpecAnalyze == InitAnalyze /\ [][NextAnalyze]_vars

(***************************************************************************)
(* The places where the column letters and the row digits of a cell        *)
(* reference become numbers: get_cell_value_by_ref with                    *)
(* column_letter_to_number (excel/utils/structure.py),                     *)
(* _analyze_single_formula (llm/startup_analyzer.py) and                   *)
(* get_startup_days_override (excel/rules/startup_rules.py).               *)
(***************************************************************************)
\* col_letters, row_num of get_cell_value_by_ref, then
\* sheet.cell(row=int(row_num), column=column_letter_to_number(col_letters))
ByRefAddress(cell_ref) ==
    <<DigitsToInt(FilterDigits(cell_ref)), column_letter_to_number(FilterAlpha(cell_ref))>>

\* col = column_index_from_string(cell_ref[0]); row = int(cell_ref[1:]);
\* NoAddress when int raises ValueError (the function then returns None)
AnalyzerAddress(cell_ref) ==
    LET rowText == SubSeq(cell_ref, 2, Len(cell_ref))
    IN  IF ~IsIntLiteral(rowText) THEN NoAddress
        ELSE <<DigitsToInt(Strip(rowText)), column_index_from_string(CharAt(cell_ref, 1))>>

\* row=int(cell_info["cell"][1:]), column=ord(cell_info["cell"][0]) - ord('A') + 1
RulesAddress(cell) ==
    <<DigitsToInt(SubSeq(cell, 2, Len(cell))), IndexIn(CharAt(cell, 1), UpperLetters)>>

\* rules["source_cells"] of the one rule of FileRules
RuleSourceCells == {"S25", "B13"}

\* the column letters and row numbers of the references converted
RefLetters == {"A", "B", "S", "Z", "AA", "AZ", "BA", "ZZ"}
RefRows == {1, 5, 13, 25, 100}

InitColumn ==
    /\ sheet = <<>>
    /\ row \in RefRows
    /\ pc = "ready"
    /\ interval = <<0, 0>>
    /\ cost_type = "unset"
    /\ chain \in {<<l>> : l \in RefLetters}
    /\ formula = chain[1] \o ToString(row)
    /\ prim = [data |-> <<>>, formulas |-> <<>>]
    /\ view = "data"
    /\ result = RNone
    /\ llm = 0
    /\ sum_range = <<0, 0, 0, 0>>
    /\ filename = ""
    /\ extracted = <<>>
    /\ calls = <<>>
    /\ address = NoAddress
    /\ NoMigrate

CallByRefAddress ==
    /\ pc = "ready"
    /\ address' = ByRefAddress(formula)
    /\ pc' = "by_ref"
    /\ UNCHANGED <<scanVars, migrateVars, formula, prim, chain, view, result, llm, sum_range, filename, extracted, calls>>

CallAnalyzerAddress ==
    /\ pc = "ready"
    /\ address' = AnalyzerAddress(formula)
    /\ pc' = "analyzer_address"
    /\ UNCHANGED <<scanVars, migrateVars, formula, prim, chain, view, result, llm, sum_range, filename, extracted, calls>>

\* the rules convert the cells of their own table only
CallRulesAddress ==
    /\ pc = "ready"
    /\ formula \in RuleSourceCells
    /\ address' = RulesAddress(formula)
    /\ pc' = "rules_address"
    /\ UNCHANGED <<scanVars, migrateVars, formula, prim, chain, view, result, llm, sum_range, filename, extracted, calls>>

NextColumn == CallByRefAddress \/ CallAnalyzerAddress \/ CallRulesAddress

SpecColumn == InitColumn /\ [][NextColumn]_vars

(***************************************************************************)
(* src/excel_migration: TaskBasedProcessor.process_sheet (tasks/base.py)   *)
(* with RuleExecutor.execute (rules/executor.py): the rules of the mapping *)
(* are applied to every source row, and the row's target data are saved.   *)
(* A row (source_data) and the target data are dictionaries from field     *)
(* names to values.                                                        *)
(***************************************************************************)
\* most rules of a mapping
MaxTaskRules == 2
\* most rows of the source sheet
MaxTaskRows == 3

\* context.get("source_data", {}).get(field)
Field(source_data, field) ==
    IF field \in DOMAIN source_data THEN Num(source_data[field]) ELSE None

\* context["target_data"][target_field] = value
SetField(target_data, target_field, value) ==
    [f \in DOMAIN target_data \cup {target_field} |->
        IF f = target_field THEN value ELSE target_data[f]]

\* RuleExecutor._execute_field_mapping with a single source field and the
\* direct transformation
execute_field_mapping(rule, source_data, target_data) ==
    IF rule.source_field = "" \/ rule.target_field = ""
    THEN [success |-> FALSE, target_data |-> target_data]
    ELSE IF Field(source_data, rule.source_field) = None
    THEN [success |-> FALSE, target_data |-> target_data]
    ELSE [success |-> TRUE,
          target_data |-> SetField(target_data, rule.target_field,
                                   source_data[rule.source_field])]

\* RuleExecutor._execute_calculation with source_fields = [source_field] and
\* a formula "[source_field]*2"
execute_calculation(rule, source_data, target_data) ==
    IF rule.target_field = "" \/ rule.formula = ""
    THEN [success |-> FALSE, target_data |-> target_data]
    ELSE IF Field(source_data, rule.source_field) = None
    THEN [success |-> FALSE, target_data |-> target_data]
    ELSE [success |-> TRUE,
          target_data |-> SetField(target_data, rule.target_field,
                                   2 * source_data[rule.source_field])]

\* RuleExecutor.execute
execute(rule, source_data, target_data) ==
    IF rule.type = "" THEN [success |-> FALSE, target_data |-> target_data]
    ELSE IF rule.type = "field_mapping"
    THEN execute_field_mapping(rule, source_data, target_data)
    ELSE IF rule.type = "calculation"
    THEN execute_calculation(rule, source_data, target_data)
    ELSE [success |-> FALSE, target_data |-> target_data]

\* TaskBasedProcessor._apply_rule: False without a rule executor
apply_rule(rule, source_data, target_data, rule_executor) ==
    IF ~rule_executor THEN [success |-> FALSE, target_data |-> target_data]
    ELSE execute(rule, source_data, target_data)

\* a loop over the rules that goes on after a rule that failed
RECURSIVE ApplyRulesPastFailures(_, _, _, _)
ApplyRulesPastFailures(rules, source_data, target_data, rule_executor) ==
    IF rules = <<>> THEN [success |-> TRUE, target_data |-> target_data]
    ELSE ApplyRulesPastFailures(
             Tail(rules), source_data,
             apply_rule(Head(rules), source_data, target_data, rule_executor).target_data,
             rule_executor)

\* for rule in mapping.rules: success = await self._apply_rule(...);
\* if not success: return False
RECURSIVE ApplyRules(_, _, _, _)
ApplyRules(rules, source_data, target_data, rule_executor) ==
    IF rules = <<>> THEN [success |-> TRUE, target_data |-> target_data]
    ELSE LET applied == apply_rule(Head(rules), source_data, target_data, rule_executor)
         IN  IF ~applied.success
             THEN [success |-> FALSE, target_data |-> applied.target_data]
             ELSE ApplyRules(Tail(rules), source_data, applied.target_data, rule_executor)

\* the rules the mappings are built from: two field mappings, a field
\* mapping without target field, a calculation, a rule of an unknown type
TaskRules ==
    {[type |-> "field_mapping", source_field |-> "a", target_field |-> "x", formula |-> ""],
     [type |-> "field_mapping", source_field |-> "b", target_field |-> "y", formula |-> ""],
     [type |-> "field_mapping", source_field |-> "a", target_field |-> "", formula |-> ""],
     [type |-> "calculation", source_field |-> "b", target_field |-> "z", formula |-> "[b]*2"],
     [type |-> "lookup", source_field |-> "a", target_field |-> "x", formula |-> ""]}

\* the source rows: with field a only, and with fields a and b
TaskSourceRows == {[f \in {"a"} |-> 1], [f \in {"a", "b"} |-> IF f = "a" THEN 1 ELSE 3]}

InitTask ==
    /\ sheet = <<>>
    /\ row = 1
    /\ pc = "task_loop"
    /\ interval = <<0, 0>>
    /\ cost_type = "unset"
    /\ NoResolve
    /\ primitive = FALSE
    /\ schema = TRUE
    /\ current_output_row = 2
    /\ processed_rows = {}
    /\ out = <<>>
    /\ emitted = <<>>
    /\ element = NoElement
    /\ \E source_rows \in SeqsUpTo(TaskSourceRows, MaxTaskRows),
          rules \in SeqsUpTo(TaskRules, MaxTaskRules),
          task_type \in {"migrate", "analyze"},
          rule_executor \in BOOLEAN :
          task = [source_rows |-> source_rows, rules |-> rules, task_type |-> task_type,
                  rule_executor |-> rule_executor, saved |-> <<>>, success |-> "running"]

TaskInLoop == pc = "task_loop" /\ row <= Len(task.source_rows)

\* the target data of the current row after the loop over the rules
RowApplied == ApplyRules(task.rules, task.source_rows[row], <<>>, task.rule_executor)

\* a rule fails on the current row: return False
RuleFails ==
    /\ TaskInLoop
    /\ ~RowApplied.success
    /\ task' = [task EXCEPT !.success = "False"]
    /\ pc' = "task_returned"
    /\ UNCHANGED <<scanVars, resolveVars, primitive, schema, current_output_row,
                   processed_rows, out, emitted, element>>

\* every rule succeeded: the target data are saved in migration mode when
\* they are not empty, and the loop goes on
RowSaved ==
    /\ TaskInLoop
    /\ RowApplied.success
    /\ task' = [task EXCEPT !.saved =
                   IF task.task_type = "migrate" /\ DOMAIN RowApplied.target_data # {}
                   THEN Append(@, [source_row |-> row, data |-> RowApplied.target_data])
                   ELSE @]
    /\ row' = row + 1
    /\ UNCHANGED <<pc, sheet, interval, cost_type, resolveVars, primitive, schema,
                   current_output_row, processed_rows, out, emitted, element>>

\* the loop is over: return True
TaskReturnsTrue ==
    /\ pc = "task_loop"
    /\ row > Len(task.source_rows)
    /\ task' = [task EXCEPT !.success = "True"]
    /\ pc' = "task_returned"
    /\ UNCHANGED <<scanVars, resolveVars, primitive, schema, current_output_row,
                   processed_rows, out, emitted, element>>

NextTask == RuleFails \/ RowSaved \/ TaskReturnsTrue

SpecTask == InitTask /\ [][NextTask]_vars

(***************************************************************************)
(* Properties of the scanner.                                              *)
(***************************************************************************)
\* the specification's separator: a non-empty string that consists only of
\* '-' characters after trimming
DashOnly(v) ==
    /\ v.t = "str"
    /\ Len(Strip(v.s)) > 0
    /\ \A i \in 1..Len(Strip(v.s)) : CharAt(Strip(v.s), i) = "-"

NameOf(r) == get_cell_value(sheet, r, "B")

\* C1 as stated: for every row r of the sheet, whatever its name column
\* holds, the returned interval satisfies start_row <= r <= end_row.
C1_IntervalContainsAnyRow ==
    pc = "interval" => (interval[1] <= row /\ row <= interval[2])

\* C1 amended: for every row r whose name column is not a dash-only
\* separator, the returned interval satisfies start_row <= r <= end_row.
C1_IntervalContainsNonSeparatorRow ==
    (pc = "interval" /\ ~DashOnly(NameOf(row)))
        => (interval[1] <= row /\ row <= interval[2])

\* a non-separator row strictly inside an interval bounded by a separator
\* above and a separator below
C1_Witness ==
    /\ pc = "interval"
    /\ ~DashOnly(NameOf(row))
    /\ 1 < interval[1] /\ interval[1] < row
    /\ interval[2] < Len(sheet)
    /\ DashOnly(NameOf(interval[1] - 1))
    /\ DashOnly(NameOf(interval[2] + 1))

\* C2: no row of the returned interval is a dash-only separator, also
\* when the queried row, or row 1, is itself a separator.
C2_NoSeparatorInInterval ==
    pc = "interval"
        => \A i \in interval[1]..interval[2] : ~DashOnly(NameOf(i))

(***************************************************************************)
(* Properties of the orchestrator.                                         *)
(***************************************************************************)
\* a name that is neither empty (no value, or a blank string) nor a
\* dash-only separator
IsDataName(v) ==
    /\ v # None
    /\ ~(v.t = "str" /\ Strip(v.s) = "")
    /\ ~DashOnly(v)

\* the source rows after the header that hold such a name
DataRows ==
    {r \in (find_header_row(sheet) + 1)..Len(sheet) : IsDataName(NameOf(r))}

\* the output rows that hold source row r when the run is over
OutputRowsOf(r) == {o \in DOMAIN out : out[o].src = r}

\* C5: when migrate has finished, every source row after the header whose
\* name is non-empty and not a separator is held by exactly one output row;
\* none is skipped, not even when the PRIMITIVE sheet is missing.
C5_EveryDataRowEmittedOnce ==
    pc = "done" => \A r \in DataRows : Cardinality(OutputRowsOf(r)) = 1

\* the element catalog rows the run emitted, and the sub-element rows of one
ElementRows == {e \in DOMAIN emitted : sheet[e].bold /\ e \notin processed_rows}
SubElementsOf(e) == ScanSubElements(sheet, e + 1)

\* C6: for every Element row with k >= 1 SubElement rows, the SUM formula
\* in the Element's output row ranges over exactly the k output rows that
\* follow it, the rows its SubElements were written to.
C6_SumRangeIsSubElementRows ==
    pc = "done" =>
        \A e \in ElementRows :
            LET k == Len(SubElementsOf(e))
                o == emitted[e]
            IN  k >= 1 =>
                    /\ out[o].P = Str(SumFormula("P", o + 1, o + k))
                    /\ \A i \in 1..k : emitted[SubElementsOf(e)[i]] = o + i

\* C7: for any two emitted source rows a < b, the output row assigned to a
\* is strictly smaller than the one assigned to b.
C7_OutputOrderFollowsSourceOrder ==
    \A a \in DOMAIN emitted : \A b \in DOMAIN emitted :
        a < b => emitted[a] < emitted[b]

(***************************************************************************)
(* Properties of the row classifier.                                       *)
(***************************************************************************)
CostKinds == {"Fixed Optional", "Fixed Mandatory", "Fee Optional", "Fee Mandatory"}
ElementKinds == {"Element", "SubElement"}

\* C3: classification is total: for the row create_element was last called
\* on, whatever its type, name and cost columns hold, a non-empty,
\* non-separator name gets one of the four cost kinds and one of the two
\* element kinds, never 'no classification'.
C3_ClassifyTotal ==
    (pc \in {"process_loop", "processed"} /\ row > find_type_header_row(sheet) + 1) =>
        (IsDataName(NameOf(row - 1)) =>
            /\ element.ok
            /\ element.cost_type \in CostKinds
            /\ element.element_type \in ElementKinds)

(***************************************************************************)
(* Properties of the SUM evaluation.                                       *)
(***************************************************************************)
\* the cells <<row, column>> of the inclusive range the formula names
CellsOfRange == (sum_range[2]..sum_range[4]) \X (sum_range[1]..sum_range[3])

\* the number a cell counts for: its value if numeric, 0 otherwise
CountsFor(cell) ==
    LET v == ColumnValue(sheet, cell[1], cell[2])
    IN  IF v.t = "num" THEN v.n ELSE 0

RECURSIVE TotalOf(_)
TotalOf(cellSet) ==
    IF cellSet = {} THEN 0
    ELSE LET c == CHOOSE x \in cellSet : TRUE
         IN  CountsFor(c) + TotalOf(cellSet \ {c})

\* C11: a SUM over a contiguous range, written with or without the leading
\* '=', resolves to the sum of exactly the cells of the inclusive range,
\* blank and non-numeric cells counting as 0.
C11_SumOfInclusiveRange ==
    pc = "summed" => result = Rat(TotalOf(CellsOfRange), 1)

\* C11 amended: a formula =SUM(c1r1:c2r2), written with the leading '=',
\* resolves to the sum of exactly the cells of the inclusive range, blank
\* and non-numeric cells counting as 0; without the '=' the result is 0.
C11_SumWithLeadingEquals ==
    /\ (pc = "summed" /\ StartsWith(formula, "="))
          => result = Rat(TotalOf(CellsOfRange), 1)
    /\ (pc = "summed" /\ ~StartsWith(formula, "=")) => result = Rat(0, 1)

\* a range of two columns and two rows that holds numbers and a text cell,
\* summed to a non-zero total while a number sits in a row below the range
C11_Witness ==
    /\ pc = "summed"
    /\ StartsWith(formula, "=")
    /\ Cardinality(CellsOfRange) >= 4
    /\ \E c \in CellsOfRange : ColumnValue(sheet, c[1], c[2]).t = "str"
    /\ \E c \in CellsOfRange : ColumnValue(sheet, c[1], c[2]).t = "num"
    /\ \E r \in (sum_range[4] + 1)..Len(sheet) : ColumnValue(sheet, r, 8).t = "num"
    /\ result = Rat(TotalOf(CellsOfRange), 1)
    /\ result.n > 0

(***************************************************************************)
(* Properties of the ratio S25/B13.                                        *)
(***************************************************************************)
\* B13 is 0 or empty
DenominatorIsZero(sh) == PrimValue(sh, 13, 2) \in {Num(0), None}

\* C12: a ratio whose denominator is 0 or empty yields None, never a
\* number, in the generic resolver and in both override computations,
\* whatever S25 holds.
C12_ZeroDenominatorGivesNone ==
    /\ (pc = "ref_resolved" /\ view = "formulas" /\ DenominatorIsZero(prim.formulas))
          => result = RNone
    /\ (pc \in {"override", "rules_override"} /\ DenominatorIsZero(prim.data))
          => result = RNone

\* the cell named by cell_ref lies on a cycle of ratio formulas of the
\* formula view: following numerators and denominators comes back to it
RatioOperands(c) ==
    LET v == IF c \in DOMAIN prim.formulas THEN prim.formulas[c] ELSE None
    IN  IF v.t = "str" /\ StartsWith(v.s, "=") /\ Contains(v.s, "/")
        THEN {<<DigitsToInt(FilterDigits(x)), column_letter_to_number(FilterAlpha(x))>> :
                 x \in {Split(SubSeq(v.s, 2, Len(v.s)), "/")[i] : i \in 1..2}}
        ELSE {}
OnCycle(c) ==
    \/ c \in RatioOperands(c)
    \/ \E d \in RatioOperands(c) : c \in RatioOperands(d)

\* C13: a cyclic reference chain ends with None and is stopped by the
\* resolver itself, never by exhausting the interpreter's stack.
C13_CycleStopsWithinDepthCap ==
    (pc = "ref_resolved" /\ view = "formulas" /\ OnCycle(CellA1))
        => /\ result = RNone
           /\ ~RaisesRecursionError(formula, prim.formulas, 0)

(***************************************************************************)
(* Properties of reference extraction.                                     *)
(***************************************************************************)
\* what a token of the chain was written as: a reference with a sheet, a
\* bare reference, a SUM over the range <<c1, r1, c2, r2>>, or a token with
\* two '!'
ExtractTokenInfo(tok) ==
    CASE tok = "PRIMITIVE!B2"   -> [kind |-> "ref", sheet |-> "PRIMITIVE", cell |-> "B2", rg |-> <<0, 0, 0, 0>>]
      [] tok = "PRIMITIVE!$C$3" -> [kind |-> "ref", sheet |-> "PRIMITIVE", cell |-> "C3", rg |-> <<0, 0, 0, 0>>]
      [] tok = "H5"             -> [kind |-> "bare", sheet |-> "", cell |-> "H5", rg |-> <<0, 0, 0, 0>>]
      [] tok = "SUM(H5:H7)"     -> [kind |-> "sum", sheet |-> "", cell |-> "", rg |-> <<8, 5, 8, 7>>]
      [] tok = "SUM(H5:I6)"     -> [kind |-> "sum", sheet |-> "", cell |-> "", rg |-> <<8, 5, 9, 6>>]
      [] OTHER                  -> [kind |-> "malformed", sheet |-> "", cell |-> "", rg |-> <<0, 0, 0, 0>>]

\* the cells of the inclusive range in row-major order
RowMajor(rg) ==
    LET width == rg[3] - rg[1] + 1
        height == rg[4] - rg[2] + 1
    IN  [i \in 1..(width * height) |->
            ColumnLetter(rg[1] + ((i - 1) % width)) \o ToString(rg[2] + ((i - 1) \div width))]

\* the cells of the extracted references, '$' signs removed
ExtractedCells == [i \in 1..Len(extracted) |-> RemoveChar(extracted[i][2], "$")]

\* C14: SUM(c1r1:c2r2) expands into (r2-r1+1)*(c2-c1+1) references, the
\* cells of the inclusive rectangle in row-major order, each exactly once.
C14_SumRangeExpandsRowMajor ==
    (pc = "utils_extracted" /\ Len(chain) = 1 /\ ExtractTokenInfo(chain[1]).kind = "sum")
        => LET rg == ExtractTokenInfo(chain[1]).rg
           IN  /\ Len(extracted) = (rg[4] - rg[2] + 1) * (rg[3] - rg[1] + 1)
               /\ ExtractedCells = RowMajor(rg)

\* the references of the well-formed reference tokens of a chain, in order
RECURSIVE WellFormedRefs(_)
WellFormedRefs(c) ==
    IF c = <<>> THEN <<>>
    ELSE (IF ExtractTokenInfo(c[1]).kind = "ref"
          THEN <<(<<ExtractTokenInfo(c[1]).sheet, ExtractTokenInfo(c[1]).cell>>)>>
          ELSE <<>>) \o WellFormedRefs(Tail(c))

\* a chain of references with a sheet and of tokens with two '!'
RefsAndMalformed(c) ==
    \A i \in 1..Len(c) : ExtractTokenInfo(c[i]).kind \in {"ref", "malformed"}

\* C15: a token with two '!' is skipped and every well-formed reference
\* before and after it is still returned; extraction never gives up on the
\* whole formula.
C15_MalformedTokenSkipped ==
    (pc \in {"extracted", "utils_extracted"} /\ RefsAndMalformed(chain))
        => [i \in 1..Len(extracted) |-> <<extracted[i][1], ExtractedCells[i]>>]
               = WellFormedRefs(chain)

\* C16: a bare cell reference at the head of the chain is returned as the
\* first reference.
C16_BareReferenceIsFirst ==
    (pc \in {"extracted", "utils_extracted"} /\ ExtractTokenInfo(chain[1]).kind = "bare")
        => /\ Len(extracted) >= 1
           /\ ExtractedCells[1] = ExtractTokenInfo(chain[1]).cell
           /\ ~Contains(extracted[1][1], "!") /\ ~Contains(extracted[1][1], "*")

(***************************************************************************)
(* Properties of the header search.                                        *)
(***************************************************************************)
\* the rows of the window 1..min(10, row_count) whose column A holds label
SentinelRows(label) ==
    {r \in 1..Len(sheet) : r <= 10 /\ sheet[r].A = Str(label)}

\* the smallest such row, 1 when the window holds none
FirstSentinelRow(label) ==
    IF SentinelRows(label) = {} THEN 1
    ELSE CHOOSE r \in SentinelRows(label) : \A q \in SentinelRows(label) : r <= q

\* C17: find_header_row returns the smallest row of 1..min(10, row_count)
\* whose column-1 cell equals the sentinel, and 1 when that window holds
\* none: a sentinel in row 10 is found, a sentinel below row 10 is not.
C17_HeaderRowWithinFirstTen ==
    /\ pc = "type_header" => row = FirstSentinelRow("Type")
    /\ pc = "header" => row = FirstSentinelRow("Portfolio")

OverrideValue == rules_get_startup_days_override(filename, primitive, prim.data)

\* C20: the override is consulted first: when it matches, its value is the
\* row's value and the fallback is not called.
C20_OverrideBeforeResolverBeforeFallback ==
    (pc = "days_analyzed" /\ OverrideValue # RNone)
        => /\ result = OverrideValue
           /\ llm = 0

(***************************************************************************)
(* Properties of the emitted startup days.                                 *)
(***************************************************************************)
\* the source rows the orchestrator finds Fixed, with a formula in column H
\* whose first reference is a PRIMITIVE cell with a cached number
ResolvableFixedRows ==
    {r \in DOMAIN emitted :
        /\ IsFixed(determine_cost_type(r, sheet))
        /\ HasFormula(sheet, r)
        /\ ~sheet[r].bold
        /\ DirectExtraction(sheet[r].Hf.s, prim).kind = "value"}

\* the number written to a cell, as the resolvers' fraction
AsRat(v) == IF v.t = "num" THEN Rat(v.n, 1) ELSE RNone

\* C21: a Fixed row whose formula resolves to a number has that number in
\* the startup-days cell (column D) of its output row.
C21_ResolvedStartupDaysWritten ==
    (pc = "done" /\ primitive)
        => \A r \in ResolvableFixedRows :
              AsRat(OutCell(out, emitted[r]).D)
                  = DirectExtraction(sheet[r].Hf.s, prim).v

\* the rows for which the try block around analyze_startup_days is entered
\* and fails: named rows the loop reaches as rows of their own, Fixed, with
\* a formula in column H
FailingRows ==
    {r \in DataRows :
        /\ r \notin processed_rows
        /\ IsFixed(determine_cost_type(r, sheet))
        /\ HasFormula(sheet, r)}

C23_MissingSheetIsFatal ==
    /\ (~schema \/ ~primitive) => pc \in {"ready", "failed"}
    /\ pc = "failed" => (~schema \/ ~primitive)

(***************************************************************************)
(* Properties of the override rules.                                       *)
(***************************************************************************)
\* the source names the one entry of the table is written for
MatchingNames == {"COaaS_Schema_Prod.xlsx"}

\* C24: the override returns a value only for a source name that matches
\* an entry of the table, and then the value of that entry's computation
\* (S25 / B13); for every other source name it returns None.
C24_OverrideOnlyForMatchingName ==
    pc \in {"override", "rules_override"} =>
        LET s25 == PrimValue(prim.data, 25, 19)
            b13 == PrimValue(prim.data, 13, 2)
        IN  /\ result # RNone => (filename \in MatchingNames /\ primitive)
            /\ filename \notin MatchingNames => result = RNone
            /\ (/\ filename \in MatchingNames /\ primitive
                /\ s25.t = "num" /\ b13.t = "num" /\ b13.n # 0)
                  => result = Rat(s25.n, b13.n)

C24_Witness ==
    /\ pc = "rules_override"
    /\ filename \in MatchingNames
    /\ result = Rat(3, 1)

(***************************************************************************)
(* Properties of the migration of an element with sub-elements of two      *)
(* kinds.                                                                  *)
(***************************************************************************)
\* the bold rows followed by a sub-element with WBS FIXED and flag M and a
\* sub-element with WBS CANONE and no flag
TwoKindElements ==
    {r \in 1..(Len(sheet) - 2) :
        /\ r >= find_header_row(sheet) + 1
        /\ sheet[r].bold /\ ~is_empty_or_dashes(get_cell_value(sheet, r, "B"))
        /\ ~sheet[r + 1].bold /\ ~sheet[r + 2].bold
        /\ WbsKeyword(get_cell_value(sheet, r + 1, "D")) = "FIXED"
        /\ IsMandatory(get_cell_value(sheet, r + 1, "F"))
        /\ ~is_empty_or_dashes(get_cell_value(sheet, r + 1, "B"))
        /\ WbsKeyword(get_cell_value(sheet, r + 2, "D")) = "CANONE"
        /\ get_cell_value(sheet, r + 2, "F") = None
        /\ ~is_empty_or_dashes(get_cell_value(sheet, r + 2, "B"))}

\* C25: after the migration of a bold element followed by a sub-element
\* with WBS FIXED and flag M and a sub-element with WBS CANONE and no flag,
\* the output row of the first sub-element holds its name and the cost type
\* Fixed Mandatory, and the output row of the second holds its name and the
\* cost type Fee Optional.
C25_SubElementsClassifiedInOwnRows ==
    pc = "done" =>
        \A r \in TwoKindElements :
            /\ {r + 1, r + 2} \subseteq DOMAIN emitted
            /\ emitted[r + 1] # emitted[r + 2]
            /\ OutCell(out, emitted[r + 1]).B = get_cell_value(sheet, r + 1, "B")
            /\ OutCell(out, emitted[r + 1]).C = Str("Fixed Mandatory")
            /\ OutCell(out, emitted[r + 2]).B = get_cell_value(sheet, r + 2, "B")
            /\ OutCell(out, emitted[r + 2]).C = Str("Fee Optional")

(***************************************************************************)
(* Properties of the conversion of references.                             *)
(***************************************************************************)
\* the 1-indexed base-26 numbers of the column letters
Base26 ==
    [A |-> 1, B |-> 2, S |-> 19, Z |-> 26, AA |-> 27, AZ |-> 52, BA |-> 53, ZZ |-> 702]

\* C26: wherever a reference <letters><digits> is converted, the column is
\* the 1-indexed base-26 number of all the letters and the row is the
\* number of all the digits (AA5 is column 27, row 5).
C26_ColumnsAreBase26 ==
    pc \in {"by_ref", "analyzer_address", "rules_address"}
        => address = <<row, Base26[chain[1]]>>

(***************************************************************************)
(* Properties of the writes to the output sheet.                           *)
(***************************************************************************)
\* the output rows an iteration of the loop writes to
WrittenRows ==
    {o \in DOMAIN out' : o \notin DOMAIN out \/ out'[o] # out[o]}

\* C27: the output is append-only with one writer per output row: no write
\* made while source row b is processed lands on an output row that was
\* written for a different source row a.
C27_OneWriterPerOutputRow ==
    [][\A o \in WrittenRows :
          (o \in DOMAIN out /\ out[o].src # 0) => out[o].src = row]_vars

(***************************************************************************)
(* Properties of the resolvers.                                            *)
(***************************************************************************)
\* what a token of the chain refers to: whether it names the PRIMITIVE
\* sheet, whether it is written "PRIMITIVE!", its cell and coordinates
TokenInfo(tok) ==
    CASE tok = "PRIMITIVE!A1"  -> [prim |-> TRUE, upper |-> TRUE, cell |-> "A1", at |-> <<1, 1>>]
      [] tok = "PRIMITIVE!B1"  -> [prim |-> TRUE, upper |-> TRUE, cell |-> "B1", at |-> <<1, 2>>]
      [] tok = "PRIMITIVE!B2"  -> [prim |-> TRUE, upper |-> TRUE, cell |-> "B2", at |-> <<2, 2>>]
      [] tok = "PRIMITIVE!AA2" -> [prim |-> TRUE, upper |-> TRUE, cell |-> "AA2", at |-> <<2, 27>>]
      [] tok = "PRIMITIVE!C9"  -> [prim |-> TRUE, upper |-> TRUE, cell |-> "C9", at |-> <<9, 3>>]
      [] tok = "primitive!B2"  -> [prim |-> TRUE, upper |-> FALSE, cell |-> "B2", at |-> <<2, 2>>]
      [] OTHER                 -> [prim |-> FALSE, upper |-> FALSE, cell |-> tok, at |-> <<0, 0>>]

SingleLetterColumn(tok) == Len(FilterAlpha(TokenInfo(tok).cell)) = 1

\* the cached number of the cell a token refers to, if it has one
CachedNumber(tok) == PrimValue(prim.data, TokenInfo(tok).at[1], TokenInfo(tok).at[2])

\* C8: when the first reference of the formula targets the PRIMITIVE sheet
\* and that cell holds a number in the cached-value view, the resolver
\* returns exactly that number, whatever the formula view holds.
C8_CachedValueReturned ==
    (pc = "analyzed" /\ TokenInfo(chain[1]).prim /\ CachedNumber(chain[1]).t = "num")
        => result = Rat(CachedNumber(chain[1]).n, 1)

\* the value the single-reference resolver gives the cell of a token
FactorValue(tok) == get_cell_value_by_ref(TokenInfo(tok).cell, prim[view], 0)

RECURSIVE ProductOf(_)
ProductOf(c) ==
    IF Len(c) = 0 THEN Rat(1, 1) ELSE RMul(FactorValue(c[1]), ProductOf(Tail(c)))

AllResolved(c) ==
    \A i \in 1..Len(c) : TokenInfo(c[i]).upper /\ FactorValue(c[i]) # RNone

\* every factor a constant number of a one-letter column
AllPlainNumbers(c) ==
    \A i \in 1..Len(c) :
        /\ TokenInfo(c[i]).upper /\ SingleLetterColumn(c[i])
        /\ CachedNumber(c[i]).t = "num"
        /\ PrimValue(prim.formulas, TokenInfo(c[i]).at[1], TokenInfo(c[i]).at[2])
               = CachedNumber(c[i])

\* C9 as stated: a chain R1*...*Rn whose references all resolve to numbers
\* resolves to the product of the factors, in either resolver.
C9_ChainIsProduct ==
    (pc \in {"analyzed", "evaluated"} /\ AllPlainNumbers(chain))
        => result = ProductOf(chain)

\* C9 amended: evaluate_primitive_formula gives the product of all the
\* factors of a chain of PRIMITIVE!<cell> references that all resolve;
\* _analyze_single_formula gives the cached number of the first reference
\* alone (one-letter column), without multiplying and without a GPT-4 call.
C9_ProductOrFirstFactor ==
    /\ (pc = "evaluated" /\ AllResolved(chain)) => result = ProductOf(chain)
    /\ (pc = "analyzed" /\ TokenInfo(chain[1]).prim /\ SingleLetterColumn(chain[1])
            /\ CachedNumber(chain[1]).t = "num")
          => (result = Rat(CachedNumber(chain[1]).n, 1) /\ llm = 0)

\* a chain of two resolved factors, 3 and 4, evaluated to 12
C9_Witness ==
    /\ pc = "evaluated"
    /\ Len(chain) >= 2
    /\ AllResolved(chain)
    /\ FactorValue(chain[1]) = Rat(3, 1)
    /\ FactorValue(chain[2]) = Rat(4, 1)
    /\ result = RMul(Rat(12, 1), ProductOf(SubSeq(chain, 3, Len(chain))))

\* a factor that does not resolve: a PRIMITIVE reference without a number
\* behind it, or a token that is no "PRIMITIVE!" reference
Unresolved(tok) == ~TokenInfo(tok).upper \/ FactorValue(tok) = RNone

\* C10: if any factor of the chain does not resolve to a number, the
\* product resolves to None, never to a number.
C10_UnresolvedFactorGivesNone ==
    (pc = "evaluated" /\ \E i \in 1..Len(chain) : Unresolved(chain[i]))
        => result = RNone

(***************************************************************************)
(* Properties of the cost classifier.                                      *)
(***************************************************************************)
\* the specification's keyword of a WBS cell: case-insensitive FIXED / CANONE
KeywordAt(r) ==
    LET v == get_cell_value(sheet, r, "D")
    IN  IF v.t # "str" THEN ""
        ELSE IF Strip(Upper(v.s)) \in {"FIXED", "CANONE"} THEN Strip(Upper(v.s))
        ELSE ""

KeywordRows == {r \in interval[1]..interval[2] : KeywordAt(r) # ""}

\* the keyword of the first row of the interval that holds one
FirstKeyword ==
    IF KeywordRows = {} THEN ""
    ELSE KeywordAt(CHOOSE r \in KeywordRows : \A q \in KeywordRows : r <= q)

\* the mandatory flag of the classified row: a case-insensitive "M"
RowIsMandatory ==
    LET v == get_cell_value(sheet, row, "F")
    IN  v.t = "str" /\ Strip(Upper(v.s)) = "M"

CostFamily(ct) == IF ct \in {"Fixed Optional", "Fixed Mandatory"} THEN "Fixed" ELSE "Fee"
IsMandatoryKind(ct) == ct \in {"Fixed Mandatory", "Fee Mandatory"}

\* the rows, other than separators, whose catalog interval is the one of
\* the classified row
SameIntervalRows ==
    {q \in 1..Len(sheet) :
        /\ ~DashOnly(NameOf(q))
        /\ find_element_catalog_interval(sheet, q) = interval}

\* C28: all the non-separator rows that have the same catalog interval are
\* given the same family (Fixed or Fee); each is Mandatory exactly when its
\* own flag is "M".
C28_SameIntervalSameFamily ==
    (pc = "cost" /\ ~DashOnly(NameOf(row))) =>
        \A q \in SameIntervalRows :
            /\ CostFamily(determine_cost_type(q, sheet)) = CostFamily(cost_type)
            /\ IsMandatoryKind(determine_cost_type(q, sheet))
                  <=> LET v == get_cell_value(sheet, q, "F")
                      IN  v.t = "str" /\ Strip(Upper(v.s)) = "M"

\* a Fixed Mandatory row whose own keyword is CANONE, in one interval with
\* an earlier row that holds FIXED and is classified Fixed Optional
C28_Witness ==
    /\ pc = "cost"
    /\ cost_type = "Fixed Mandatory"
    /\ KeywordAt(row) = "CANONE"
    /\ \E q \in SameIntervalRows :
          /\ q < row
          /\ KeywordAt(q) = "FIXED"
          /\ determine_cost_type(q, sheet) = "Fixed Optional"


(***************************************************************************)
(* Properties of the range of sub-elements.                                *)
(***************************************************************************)
\* the processed rows of type Element that no SubElement row follows: the
\* next row is past the end of the sheet, or its type is not SubElement
ElementsWithoutSubElements ==
    {r \in DOMAIN emitted :
        /\ get_cell_value(sheet, r, "A") = Str("Element")
        /\ r = Len(sheet) \/ get_cell_value(sheet, r + 1, "A") # Str("SubElement")}

\* C29: an Element row that is not followed by any SubElement row has no
\* range of sub-elements, and no SUM formula is written to its output row.
C29_NoRangeWithoutSubElements ==
    pc \in {"process_loop", "processed"} =>
        \A r \in ElementsWithoutSubElements : OutCell(out, emitted[r]).L = None


(***************************************************************************)
(* Properties of the task processor.                                       *)
(***************************************************************************)
\* a rule that succeeds on a row: a field mapping or a calculation with a
\* target field (and a formula, for a calculation) whose source field the
\* row holds, run by a rule executor
RuleSucceeds(rule, source_data) ==
    /\ task.rule_executor
    /\ rule.type \in {"field_mapping", "calculation"}
    /\ rule.target_field # ""
    /\ rule.type = "calculation" => rule.formula # ""
    /\ rule.source_field \in DOMAIN source_data

\* the rows on which some rule fails
RowsWithFailingRule ==
    {j \in 1..Len(task.source_rows) :
        \E i \in 1..Len(task.rules) : ~RuleSucceeds(task.rules[i], task.source_rows[j])}

SavedRows == {task.saved[i].source_row : i \in 1..Len(task.saved)}

\* C30: a row's target data are saved only if every rule succeeded on it;
\* at the first row k with a failing rule process_sheet returns False,
\* nothing is saved for row k or a later row, and the rows before k that
\* were saved stay saved (in migration mode with rules, all of them).
C30_SaveOnlyWhenEveryRuleSucceeded ==
    /\ SavedRows \cap RowsWithFailingRule = {}
    /\ \A k \in RowsWithFailingRule : \A j \in SavedRows : j < k
    /\ pc = "task_returned" =>
          /\ task.success = "False" <=> RowsWithFailingRule # {}
          /\ (task.task_type = "migrate" /\ task.rules # <<>>) =>
                \A j \in 1..Len(task.source_rows) :
                    (\A k \in RowsWithFailingRule : j < k) => j \in SavedRows
          /\ \A i \in 1..Len(task.saved) :
                \A n \in 1..Len(task.rules) :
                    task.rules[n].target_field \in DOMAIN task.saved[i].data

\* two rows saved, then a row on which the second rule fails
C30_Witness ==
    /\ pc = "task_returned"
    /\ task.success = "False"
    /\ SavedRows = {1, 2}
    /\ Len(task.source_rows) >= 3
    /\ RuleSucceeds(task.rules[1], task.source_rows[3])
    /\ ~RuleSucceeds(task.rules[2], task.source_rows[3])

====
